---- MODULE Spec2Model ----
\* Focus & categorization engine of foxus: the focus-session state machine
\* (FocusManager over the focus_sessions / focus_schedules / rules /
\* categories tables), its rate-limited budget accounting and the domain
\* block oracle.
\*
\* Conventions
\*   - a Rust String is a sequence of one-character strings;
\*   - Option<T> is a sequence of length 0 (None) or 1 (Some(v));
\*   - a table is a sequence of rows, the row id being the index;
\*   - every FocusManager operation that holds the store lock for its whole
\*     body is one atomic action; use_distraction_time, which releases the
\*     rate-limit lock before it takes the store lock, is two actions.
EXTENDS Integers, Sequences, FiniteSets, TLC

VARIABLES
    now,                        \* seconds elapsed on the host clock
    sessions,                   \* table focus_sessions
    schedules,                  \* table focus_schedules
    rules,                      \* table rules
    categories,                 \* table categories
    last_distraction_request,   \* FocusManager.last_distraction_request
    pc,                         \* per thread: position inside use_distraction_time
    secs_arg,                   \* per thread: the secs argument of the call in flight
    result,                     \* the last value returned by an operation
    input,                      \* the arguments of the last categorizer / schedule query
    running,                    \* TrackerService.running
    sampler,                    \* position of the sampler thread
    activities,                 \* table activities
    main,                       \* position of the application's main thread
    categorizer,                \* the Categorizer of the application process
    host_categorizer,           \* the Categorizer of the native host process
    poisoned,                   \* the mutexes a panicking holder has poisoned
    reply,                      \* the message the last operation wrote to the extension
    loops,                      \* per start() call: position of the thread it spawned
    lock_holder,                \* per mutex: the thread holding it, or "free"
    handler                     \* per thread: the handler it runs and its position in it

tracker_vars == <<running, sampler, activities, main>>

thread_vars == <<loops, lock_holder, handler>>

cache_vars == <<categorizer, host_categorizer, poisoned>>

vars == <<now, sessions, schedules, rules, categories,
          last_distraction_request, pc, secs_arg, result, input, tracker_vars, thread_vars,
          cache_vars, reply>>

----------------------------------------------------------------------------
\* Bounds of the model

MaxSessions == 2
MaxTime == 25
NumThreads == 2

Threads == 1..NumThreads
TickSteps == {24, 25}

\* Unix time of the first state: Monday 1970-01-05 08:59:40 UTC
BaseTime == (4 * 86400) + (8 * 3600) + (59 * 60) + 40

\* budgets handed to start_session / start_scheduled_session
SessionBudgets == {60, 600}
\* secs handed to use_distraction_time (30 by the native host)
DistractionSecs == {30}
\* budget_minutes handed to the start_focus_session command: both sides of
\* both limits
CommandBudgetMinutes == {0, 1, 1440, 1441}
\* which of the store_calls store calls of an operation fails; 0: none
FailPoints(store_calls) == 0..store_calls

----------------------------------------------------------------------------
\* Program constants

DISTRACTION_TIME_RATE_LIMIT == 25
BUDGET_CHURN_THRESHOLD == 60
SECS_PER_DAY == 86400
MAX_BUDGET_MINUTES == 24 * 60
MAX_RULE_PRIORITY == 1000
MAX_RULE_PATTERN_LEN == 500

----------------------------------------------------------------------------
\* Strings

None == <<>>
Some(v) == <<v>>

\* Result<T, E>: Ok(v) or Err(e)
Ok(v) == [ok |-> TRUE, value |-> v]
Err(e) == [ok |-> FALSE, value |-> e]

\* the characters used, in ASCII order
Chars == <<" ", "*", "+", ",", "-", ".",
           "0", "1", "2", "3", "4", "5", "6", "7", "8", "9", ":",
           "c", "g", "n", "r", "t", "v", "w", "x">>

OrdOf == [c \in {Chars[i] : i \in 1..Len(Chars)} |->
              CHOOSE i \in 1..Len(Chars) : Chars[i] = c]
Ord(c) == OrdOf[c]

Digits == <<"0", "1", "2", "3", "4", "5", "6", "7", "8", "9">>
DigitValOf == [c \in {Digits[i] : i \in 1..10} |->
                  (CHOOSE i \in 1..10 : Digits[i] = c) - 1]
DigitVal(c) == DigitValOf[c]
IsDigit(c) == c \in DOMAIN DigitValOf

Max(a, b) == IF a >= b THEN a ELSE b
Abs(x) == IF x < 0 THEN 0 - x ELSE x

\* str < str and str <= str of Rust: lexicographic on bytes
RECURSIVE StrLt(_, _)
StrLt(a, b) ==
    IF b = <<>> THEN FALSE
    ELSE IF a = <<>> THEN TRUE
    ELSE IF Ord(Head(a)) < Ord(Head(b)) THEN TRUE
    ELSE IF Ord(Head(a)) > Ord(Head(b)) THEN FALSE
    ELSE StrLt(Tail(a), Tail(b))

StrLe(a, b) == a = b \/ StrLt(a, b)

\* str::starts_with / str::ends_with
starts_with(s, p) == Len(p) <= Len(s) /\ SubSeq(s, 1, Len(p)) = p
ends_with(s, p) == Len(p) <= Len(s) /\ SubSeq(s, Len(s) - Len(p) + 1, Len(s)) = p

\* str::trim_start_matches(p): strips p from the front repeatedly
RECURSIVE trim_start_matches(_, _)
trim_start_matches(s, p) ==
    IF p # <<>> /\ starts_with(s, p)
    THEN trim_start_matches(SubSeq(s, Len(p) + 1, Len(s)), p)
    ELSE s

\* str::trim: strips leading and trailing whitespace
RECURSIVE trim(_)
trim(s) ==
    IF s = <<>> THEN s
    ELSE IF Head(s) = " " THEN trim(Tail(s))
    ELSE IF s[Len(s)] = " " THEN trim(SubSeq(s, 1, Len(s) - 1))
    ELSE s

\* str::split(','): the sequence of the parts
RECURSIVE split_comma(_)
split_comma(s) ==
    IF \A i \in 1..Len(s) : s[i] # ","
    THEN <<s>>
    ELSE LET k == CHOOSE i \in 1..Len(s) :
                     s[i] = "," /\ \A j \in 1..(i - 1) : s[j] # ","
         IN <<SubSeq(s, 1, k - 1)>> \o split_comma(SubSeq(s, k + 1, Len(s)))

\* the value of a string of decimal digits
RECURSIVE digits_value(_)
digits_value(s) ==
    IF s = <<>> THEN 0
    ELSE 10 * digits_value(SubSeq(s, 1, Len(s) - 1)) + DigitVal(s[Len(s)])

\* str::parse::<u32>().ok(): an optional '+' followed by one or more digits
parse_u32(s) ==
    LET body == IF s # <<>> /\ Head(s) = "+" THEN Tail(s) ELSE s
    IN IF body # <<>> /\ \A i \in 1..Len(body) : IsDigit(body[i])
       THEN Some(digits_value(body))
       ELSE None

\* format!("{:02}:{:02}", hours, minutes) for hours, minutes < 100
format_hh_mm(hours, minutes) ==
    <<Digits[(hours \div 10) + 1], Digits[(hours % 10) + 1], ":",
      Digits[(minutes \div 10) + 1], Digits[(minutes % 10) + 1]>>

----------------------------------------------------------------------------
\* Clock

\* SystemTime::now() as seconds since the Unix epoch
UnixNow == BaseTime + now

\* get_current_day_and_time with the epoch taken for a Friday
get_current_day_and_time_friday_epoch(t) ==
    LET days_since_epoch == t \div SECS_PER_DAY
        day_of_week == ((days_since_epoch + 4) % 7) + 1
        seconds_today == t % SECS_PER_DAY
        hours == seconds_today \div 3600
        minutes == (seconds_today % 3600) \div 60
    IN <<day_of_week, format_hh_mm(hours, minutes)>>

\* get_current_day_and_time: ISO weekday and HH:MM of a Unix timestamp
get_current_day_and_time(t) ==
    LET days_since_epoch == t \div SECS_PER_DAY
        day_of_week == ((days_since_epoch + 3) % 7) + 1
        seconds_today == t % SECS_PER_DAY
        hours == seconds_today \div 3600
        minutes == (seconds_today % 3600) \div 60
    IN <<day_of_week, format_hh_mm(hours, minutes)>>

----------------------------------------------------------------------------
\* FocusSession (models/focus_session.rs)

\* FocusSession::new that drops the scheduled tag
FocusSession_new_untagged(distraction_budget_secs, scheduled, t) ==
    [started_at |-> t,
     ended_at |-> None,
     scheduled |-> FALSE,
     distraction_budget |-> distraction_budget_secs,
     distraction_used |-> 0]

\* FocusSession::new, created at Unix time t
FocusSession_new(distraction_budget_secs, scheduled, t) ==
    [started_at |-> t,
     ended_at |-> None,
     scheduled |-> scheduled,
     distraction_budget |-> distraction_budget_secs,
     distraction_used |-> 0]

\* FocusSession::save: INSERT, the new row gets the next id
save(tbl, session) == Append(tbl, session)

\* rows with ended_at IS NULL
OpenSessions(tbl) == {i \in DOMAIN tbl : tbl[i].ended_at = None}

\* find_active without the ended_at IS NULL filter
find_active_any_row(tbl) ==
    IF tbl = <<>> THEN None
    ELSE LET latest == {i \in DOMAIN tbl :
                           \A j \in DOMAIN tbl :
                               tbl[j].started_at <= tbl[i].started_at}
         IN Some(CHOOSE i \in latest : \A j \in latest : i <= j)

\* FocusSession::find_active:
\*   WHERE ended_at IS NULL ORDER BY started_at DESC LIMIT 1
\* (rows with equal started_at come out in rowid order)
find_active(tbl) ==
    IF OpenSessions(tbl) = {} THEN None
    ELSE LET latest == {i \in OpenSessions(tbl) :
                           \A j \in OpenSessions(tbl) :
                               tbl[j].started_at <= tbl[i].started_at}
         IN Some(CHOOSE i \in latest : \A j \in latest : i <= j)

\* FocusSession::end whose UPDATE touches no row
end_no_row(tbl, id, t) == tbl

\* FocusSession::end of the persisted row id, at Unix time t
end(tbl, id, t) == [tbl EXCEPT ![id].ended_at = Some(t)]

\* add_distraction_time with the sign of secs reversed
add_distraction_time_negated(tbl, id, secs) ==
    [tbl EXCEPT ![id].distraction_used = @ - secs]

\* FocusSession::add_distraction_time of the persisted row id
add_distraction_time(tbl, id, secs) ==
    [tbl EXCEPT ![id].distraction_used = @ + secs]

\* FocusSession::end that ignores a session without an id
FocusSession_end_silent(tbl, id, t) ==
    IF id = None
    THEN [res |-> Ok(<<>>), tbl |-> tbl]
    ELSE [res |-> Ok(<<>>), tbl |-> end(tbl, id[1], t)]

\* FocusSession::end of a session object whose id is Option<i64>: the result
\* and the table it leaves
FocusSession_end(tbl, id, t) ==
    IF id = None
    THEN [res |-> Err("InvalidParameterName"), tbl |-> tbl]
    ELSE [res |-> Ok(<<>>), tbl |-> end(tbl, id[1], t)]

\* FocusSession::add_distraction_time of a session object whose id is
\* Option<i64>
FocusSession_add_distraction_time(tbl, id, secs) ==
    IF id = None
    THEN [res |-> Err("InvalidParameterName"), tbl |-> tbl]
    ELSE [res |-> Ok(<<>>), tbl |-> add_distraction_time(tbl, id[1], secs)]

\* budget_remaining without the floor at 0
budget_remaining_unclamped(session) ==
    session.distraction_budget - session.distraction_used

\* FocusSession::budget_remaining
budget_remaining(session) ==
    Max(session.distraction_budget - session.distraction_used, 0)

----------------------------------------------------------------------------
\* FocusSchedule (models/focus_schedule.rs)

\* FocusSchedule::update of a schedule object whose id is Option<i64>:
\*   UPDATE focus_schedules SET ... WHERE id = ?6
FocusSchedule_update(tbl, id, schedule) ==
    IF id = None
    THEN [res |-> Err("InvalidParameterName"), tbl |-> tbl]
    ELSE [res |-> Ok(<<>>),
          tbl |-> [k \in DOMAIN tbl |-> IF k = id[1] THEN schedule ELSE tbl[k]]]

\* FocusSchedule::applies_to_day
applies_to_day(schedule, day) ==
    LET parts == split_comma(schedule.days_of_week)
    IN \E i \in 1..Len(parts) : parse_u32(trim(parts[i])) = Some(day)

\* FocusSchedule::is_time_in_range
is_time_in_range(schedule, time) ==
    StrLe(schedule.start_time, time) /\ StrLt(time, schedule.end_time)

\* FocusSchedule::is_active_at
is_active_at(schedule, day, time) ==
    schedule.enabled /\ applies_to_day(schedule, day) /\ is_time_in_range(schedule, time)

\* FocusSchedule::find_enabled: WHERE enabled = 1 ORDER BY start_time,
\* as the sequence of row ids (rows with equal start_time in rowid order)
RECURSIVE SortByStartTime(_, _)
SortByStartTime(tbl, ids) ==
    IF ids = {} THEN <<>>
    ELSE LET first == CHOOSE i \in ids :
                          \A j \in ids :
                              \/ StrLt(tbl[i].start_time, tbl[j].start_time)
                              \/ (tbl[i].start_time = tbl[j].start_time /\ i <= j)
         IN <<first>> \o SortByStartTime(tbl, ids \ {first})

find_enabled(tbl) ==
    SortByStartTime(tbl, {i \in DOMAIN tbl : tbl[i].enabled})

\* Iterator::find over the row ids: the first schedule active at (day, time)
RECURSIVE find_first_active(_, _, _, _)
find_first_active(tbl, ids, day, time) ==
    IF ids = <<>> THEN None
    ELSE IF is_active_at(tbl[Head(ids)], day, time) THEN Some(tbl[Head(ids)])
    ELSE find_first_active(tbl, Tail(ids), day, time)

\* FocusManager::find_active_schedule: the first enabled schedule active at
\* (day, time), as Option<schedule>
find_active_schedule(tbl, day, time) ==
    find_first_active(tbl, find_enabled(tbl), day, time)

----------------------------------------------------------------------------
\* Store contents at startup

Str_reddit == <<"r", ".", "c">>
Str_www_reddit == <<"w", ".", "r", ".", "c">>
Str_notreddit == <<"n", "r", ".", "c">>
Str_wild_reddit == <<"*", ".", "r", ".", "c">>
Str_wild2_reddit == <<"*", ".", "*", ".", "r", ".", "c">>
Str_github == <<"g", ".", "c">>
Str_twitch == <<"t", ".", "v">>
Str_x == <<"x", ".", "c">>

\* schema.rs DEFAULT_CATEGORIES, seeded with ids 1..5 by migrations::run
DEFAULT_CATEGORIES ==
    <<[id |-> 1, name |-> "Coding", productivity |-> 1],
      [id |-> 2, name |-> "Communication", productivity |-> 0],
      [id |-> 3, name |-> "Entertainment", productivity |-> -1],
      [id |-> 4, name |-> "Reference", productivity |-> 1],
      [id |-> 5, name |-> "Uncategorized", productivity |-> 0]>>

Rule(pattern, match_type, category_id, priority) ==
    [pattern |-> pattern, match_type |-> match_type,
     category_id |-> category_id, priority |-> priority]

\* a few of the rules seeded by migrations::run
DefaultRules ==
    <<Rule(Str_reddit, "domain", 3, 10), Rule(Str_github, "domain", 1, 10),
      Rule(Str_twitch, "app", 3, 5)>>

\* the rule tables the store may hold at startup; category 9 does not exist
RuleTables ==
    { DefaultRules,
      <<Rule(Str_wild_reddit, "domain", 3, 10), Rule(Str_x, "domain", 2, 0)>>,
      <<Rule(Str_wild2_reddit, "domain", 3, 10), Rule(Str_twitch, "title", 3, 5)>> }

\* the domains asked about
Domains ==
    {Str_reddit, Str_www_reddit, Str_notreddit, Str_wild_reddit,
     Str_github, Str_twitch, Str_x}

Schedule(days_of_week, start_time, end_time, distraction_budget, enabled) ==
    [days_of_week |-> days_of_week, start_time |-> start_time,
     end_time |-> end_time, distraction_budget |-> distraction_budget,
     enabled |-> enabled]

Str_weekdays == <<"1", ",", "2", ",", "3", ",", "4", ",", "5">>
Str_mon_wed == <<"1", ",", " ", "3">>
Str_weekend == <<"6", ",", "7">>
Str_0800 == <<"0", "8", ":", "0", "0">>
Str_0900 == <<"0", "9", ":", "0", "0">>
Str_1200 == <<"1", "2", ":", "0", "0">>

Sched_morning == Schedule(Str_weekdays, Str_0900, Str_1200, 120, TRUE)
Sched_early == Schedule(Str_mon_wed, Str_0800, Str_0900, 45, TRUE)
Sched_weekend == Schedule(Str_weekend, Str_0800, Str_1200, 300, TRUE)
Sched_disabled == Schedule(Str_weekdays, Str_0800, Str_1200, 300, FALSE)

\* the schedule tables the store may hold at startup
ScheduleTables ==
    { <<Sched_weekend, Sched_disabled>>,
      <<Sched_disabled, Sched_morning, Sched_early>> }

----------------------------------------------------------------------------
\* Categorizer (categorizer/mod.rs)

\* char::to_lowercase on the letters the model uses in upper case
to_lowercase_char(c) ==
    IF c = "A" THEN "a" ELSE IF c = "B" THEN "b" ELSE IF c = "G" THEN "g" ELSE c

\* str::to_lowercase
to_lowercase(s) == [i \in 1..Len(s) |-> to_lowercase_char(s[i])]

\* str::split('*'): the sequence of the parts
RECURSIVE split_star(_)
split_star(s) ==
    IF \A i \in 1..Len(s) : s[i] # "*"
    THEN <<s>>
    ELSE LET k == CHOOSE i \in 1..Len(s) :
                     s[i] = "*" /\ \A j \in 1..(i - 1) : s[j] # "*"
         IN <<SubSeq(s, 1, k - 1)>> \o split_star(SubSeq(s, k + 1, Len(s)))

\* str::find(part): the offset of the leftmost occurrence, if any
find(s, part) ==
    LET hits == {k \in 0..(Len(s) - Len(part)) :
                    SubSeq(s, k + 1, k + Len(part)) = part}
    IN IF hits = {} THEN None
       ELSE Some(CHOOSE k \in hits : \A j \in hits : k <= j)

\* str::contains
contains(s, part) == find(s, part) # None

\* the loop of pattern_matches that lets the next part start where the
\* previous one was found (pos += found)
RECURSIVE match_parts_overlapping(_, _, _)
match_parts_overlapping(parts, text_lower, pos) ==
    IF parts = <<>> THEN TRUE
    ELSE IF Head(parts) = <<>>
    THEN match_parts_overlapping(Tail(parts), text_lower, pos)
    ELSE LET found == find(SubSeq(text_lower, pos + 1, Len(text_lower)), Head(parts))
         IN IF found # None
            THEN match_parts_overlapping(Tail(parts), text_lower, pos + found[1])
            ELSE FALSE

\* pattern_matches: the loop over the parts of a wildcard pattern, pos being
\* the offset in text_lower the search continues from
RECURSIVE match_parts(_, _, _)
match_parts(parts, text_lower, pos) ==
    IF parts = <<>> THEN TRUE
    ELSE IF Head(parts) = <<>>
    THEN match_parts(Tail(parts), text_lower, pos)
    ELSE LET found == find(SubSeq(text_lower, pos + 1, Len(text_lower)), Head(parts))
         IN IF found # None
            THEN match_parts(Tail(parts), text_lower,
                             pos + found[1] + Len(Head(parts)))
            ELSE FALSE

\* Categorizer::pattern_matches
pattern_matches(pattern, text) ==
    LET pattern_lower == to_lowercase(pattern)
        text_lower == to_lowercase(text)
    IN IF \E i \in 1..Len(pattern_lower) : pattern_lower[i] = "*"
       THEN match_parts(split_star(pattern_lower), text_lower, 0)
       ELSE contains(text_lower, pattern_lower)

\* Rule::find_all in insertion order (no ORDER BY)
Rule_find_all_unordered(tbl, ids) ==
    [k \in 1..Cardinality(ids) |->
        tbl[CHOOSE i \in ids : Cardinality({j \in ids : j < i}) = k - 1]]

\* Rule::find_all: SELECT ... FROM rules ORDER BY priority DESC, over the row
\* ids still to be emitted (rows with equal priority in rowid order)
RECURSIVE Rule_find_all(_, _)
Rule_find_all(tbl, ids) ==
    IF ids = {} THEN <<>>
    ELSE LET first == CHOOSE i \in ids :
                          \A j \in ids :
                              \/ tbl[i].priority > tbl[j].priority
                              \/ (tbl[i].priority = tbl[j].priority /\ i <= j)
         IN <<tbl[first]>> \o Rule_find_all(tbl, ids \ {first})

\* Categorizer::new that takes the first category as the default
Categorizer_new_first_category(rule_tbl, category_tbl) ==
    LET has_category(rule) ==
            \E k \in DOMAIN category_tbl : category_tbl[k].id = rule.category_id
    IN [rules |-> SelectSeq(Rule_find_all(rule_tbl, DOMAIN rule_tbl), has_category),
        default_category_id |-> category_tbl[1].id]

\* Categorizer::new
Categorizer_new(rule_tbl, category_tbl) ==
    LET has_category(rule) ==
            \E k \in DOMAIN category_tbl : category_tbl[k].id = rule.category_id
        named == {k \in DOMAIN category_tbl : category_tbl[k].name = "Uncategorized"}
    IN [rules |-> SelectSeq(Rule_find_all(rule_tbl, DOMAIN rule_tbl), has_category),
        default_category_id |->
            IF named = {} THEN 1
            ELSE category_tbl[CHOOSE k \in named : \A j \in named : k <= j].id]

\* the match of categorize_app with the app-name test as its default arm
app_rule_matches_any_kind(rule, app_name, window_title) ==
    IF rule.match_type = "title"
    THEN IF window_title # None
         THEN pattern_matches(rule.pattern, window_title[1])
         ELSE FALSE
    ELSE pattern_matches(rule.pattern, app_name)

\* the match of categorize_app on rule.match_type
app_rule_matches(rule, app_name, window_title) ==
    IF rule.match_type = "app" THEN pattern_matches(rule.pattern, app_name)
    ELSE IF rule.match_type = "title"
    THEN IF window_title # None
         THEN pattern_matches(rule.pattern, window_title[1])
         ELSE FALSE
    ELSE FALSE

\* the loop of categorize_app over the rules still to be tried
RECURSIVE categorize_app_from(_, _, _, _)
categorize_app_from(rule_seq, default_category_id, app_name, window_title) ==
    IF rule_seq = <<>> THEN default_category_id
    ELSE IF app_rule_matches(Head(rule_seq), app_name, window_title)
    THEN Head(rule_seq).category_id
    ELSE categorize_app_from(Tail(rule_seq), default_category_id,
                             app_name, window_title)

\* Categorizer::categorize_app
categorize_app_value(cat, app_name, window_title) ==
    categorize_app_from(cat.rules, cat.default_category_id,
                        app_name, window_title)

\* the loop of categorize_url over the rules still to be tried
RECURSIVE categorize_url_from(_, _, _)
categorize_url_from(rule_seq, default_category_id, domain) ==
    IF rule_seq = <<>> THEN default_category_id
    ELSE IF Head(rule_seq).match_type = "domain"
            /\ pattern_matches(Head(rule_seq).pattern, domain)
    THEN Head(rule_seq).category_id
    ELSE categorize_url_from(Tail(rule_seq), default_category_id, domain)

\* Categorizer::categorize_url
categorize_url_value(cat, domain) ==
    categorize_url_from(cat.rules, cat.default_category_id, domain)

----------------------------------------------------------------------------
\* TrackerService (tracker/mod.rs) and Activity (models/activity.rs)

\* TrackerConfig::default
poll_interval_secs == 5
idle_threshold_secs == 120

\* Activity::new
Activity_new(timestamp, duration_secs, source, app_name, window_title) ==
    [timestamp |-> timestamp,
     duration_secs |-> duration_secs,
     source |-> source,
     app_name |-> app_name,
     window_title |-> window_title,
     url |-> None,
     domain |-> None,
     category_id |-> None]

\* Activity::save
Activity_save(tbl, activity) == Append(tbl, activity)

\* the sampling test with the threshold itself counted as active
is_sampled_inclusive(idle_secs, window) ==
    idle_secs <= idle_threshold_secs /\ window # None

\* the two tests of a cycle: idle_secs < idle_threshold_secs and
\* if let Some(window) = platform.get_active_window()
is_sampled(idle_secs, window) ==
    idle_secs < idle_threshold_secs /\ window # None

\* the body of a cycle once a window was found: categorize, build the
\* Activity and save it
record_sample(tbl, cat, window, timestamp) ==
    LET category_id == categorize_app_value(cat, window.app_name,
                                            Some(window.window_title))
        activity == [Activity_new(timestamp, poll_interval_secs, "app",
                                  Some(window.app_name),
                                  Some(window.window_title))
                         EXCEPT !.category_id = Some(category_id)]
    IN Activity_save(tbl, activity)

\* a loop that never looks at the run flag
loop_continues_always(flag) == TRUE

\* the loop condition: while running.load(SeqCst)
loop_continues(flag) == flag

----------------------------------------------------------------------------
\* FocusManager (focus/mod.rs)

----------------------------------------------------------------------------
\* NativeHost (native_host/mod.rs)

\* OutgoingMessage
State(focus_active, budget_remaining_secs, blocked_domains) ==
    [type |-> "state", focusActive |-> focus_active,
     budgetRemaining |-> budget_remaining_secs, blockedDomains |-> blocked_domains]
BudgetUpdated(remaining) == [type |-> "budget_updated", remaining |-> remaining]
HardBlocked == [type |-> "hard_blocked"]

\* the match of NativeHost::use_distraction_time with remaining < 0 as the
\* test for a hard block
NativeHost_use_distraction_time_below_zero(res) ==
    IF res.ok /\ res.value # None
    THEN IF res.value[1] < 0
         THEN Some(HardBlocked)
         ELSE Some(BudgetUpdated(res.value[1]))
    ELSE None

\* NativeHost::use_distraction_time: the match on what
\* FocusManager::use_distraction_time(30) returned
NativeHost_use_distraction_time(res) ==
    IF res.ok /\ res.value # None
    THEN IF res.value[1] <= 0
         THEN Some(HardBlocked)
         ELSE Some(BudgetUpdated(res.value[1]))
    ELSE None

\* NativeHost::get_state: the match on what FocusManager::get_state returned
NativeHost_get_state(res) ==
    IF res.ok
    THEN State(res.value[1], res.value[2], res.value[3])
    ELSE State(FALSE, 0, <<>>)

\* FocusManager::get_blocked_domains:
\*   SELECT r.pattern FROM rules r JOIN categories c ON r.category_id = c.id
\*   WHERE r.match_type = 'domain' AND c.productivity < 0
get_blocked_domains(rule_tbl, category_tbl) ==
    LET distracting(r) ==
            /\ r.match_type = "domain"
            /\ \E k \in DOMAIN category_tbl :
                   /\ category_tbl[k].id = r.category_id
                   /\ category_tbl[k].productivity < 0
        kept == SelectSeq(rule_tbl, distracting)
    IN [k \in DOMAIN kept |-> kept[k].pattern]

\* get_state that reports the session's whole budget
get_state_value_whole_budget(session_tbl, rule_tbl, category_tbl, t) ==
    LET session == find_active(session_tbl)
        blocked_domains == get_blocked_domains(rule_tbl, category_tbl)
    IN IF session # None
       THEN LET s == session_tbl[session[1]]
            IN <<TRUE, s.distraction_budget, blocked_domains,
                 Some(Max(t - s.started_at, 0))>>
       ELSE <<FALSE, 0, blocked_domains, None>>

\* get_state with the operands of the duration swapped
get_state_value_duration_swapped(session_tbl, rule_tbl, category_tbl, t) ==
    LET session == find_active(session_tbl)
        blocked_domains == get_blocked_domains(rule_tbl, category_tbl)
    IN IF session # None
       THEN LET s == session_tbl[session[1]]
            IN <<TRUE, budget_remaining(s), blocked_domains,
                 Some(Max(s.started_at - t, 0))>>
       ELSE <<FALSE, 0, blocked_domains, None>>

\* FocusManager::get_state at Unix time t:
\*   <<active, budget_remaining, blocked_domains, session_duration_secs>>
get_state_value(session_tbl, rule_tbl, category_tbl, t) ==
    LET session == find_active(session_tbl)
        blocked_domains == get_blocked_domains(rule_tbl, category_tbl)
    IN IF session # None
       THEN LET s == session_tbl[session[1]]
            IN <<TRUE, budget_remaining(s), blocked_domains,
                 Some(Max(t - s.started_at, 0))>>
       ELSE <<FALSE, 0, blocked_domains, None>>

\* the closure of is_domain_blocked with == in place of ends_with
pattern_blocks_exact(domain, d) ==
    domain = d \/ domain = trim_start_matches(d, <<"*", ".">>)

\* the closure of is_domain_blocked: does blocked pattern d cover domain
pattern_blocks(domain, d) ==
    ends_with(domain, d) \/ domain = trim_start_matches(d, <<"*", ".">>)

\* is_domain_blocked without the early return for an inactive state
is_domain_blocked_value_any_time(state, domain) ==
    \E k \in DOMAIN state[3] : pattern_blocks(domain, state[3][k])

\* FocusManager::is_domain_blocked, given the FocusState
is_domain_blocked_value(state, domain) ==
    IF ~state[1] THEN FALSE
    ELSE \E k \in DOMAIN state[3] : pattern_blocks(domain, state[3][k])

\* a rate-limit test that lets every call through
is_rate_limited_never(last_request, t) == FALSE

\* is_rate_limited with the window closed at its end (<= in place of <)
is_rate_limited_inclusive(last_request, t) ==
    last_request # None /\ t - last_request[1] <= DISTRACTION_TIME_RATE_LIMIT

\* use_distraction_time: is a call at instant t rate limited
is_rate_limited(last_request, t) ==
    last_request # None /\ t - last_request[1] < DISTRACTION_TIME_RATE_LIMIT

\* start_rows without the "end any existing active session" step
start_rows_keep_existing(tbl, distraction_budget_secs, scheduled, t) ==
    save(tbl, FocusSession_new(distraction_budget_secs, scheduled, t))

\* start_session / start_scheduled_session: end the active session, insert
start_rows(tbl, distraction_budget_secs, scheduled, t) ==
    LET existing == find_active(tbl)
        ended == IF existing # None THEN end(tbl, existing[1], t) ELSE tbl
    IN save(ended, FocusSession_new(distraction_budget_secs, scheduled, t))

\* budget_changed with the threshold included (>= in place of >)
budget_changed_inclusive(schedule, session) ==
    Abs(schedule.distraction_budget - session.distraction_budget)
        >= BUDGET_CHURN_THRESHOLD

budget_changed_always(schedule, session) == TRUE

\* has the schedule's budget moved away from the session's
\* the churn test never finding a change
budget_changed_never(schedule, session) == FALSE

budget_changed(schedule, session) ==
    Abs(schedule.distraction_budget - session.distraction_budget)
        > BUDGET_CHURN_THRESHOLD

\* check_schedules_rows without the session.scheduled guards of the match arms
check_schedules_rows_any_session(tbl, active_schedule, t) ==
    LET active_session == find_active(tbl)
    IN IF active_schedule # None /\ active_session = None
       THEN save(tbl, FocusSession_new(active_schedule[1].distraction_budget, TRUE, t))
       ELSE IF active_schedule = None /\ active_session # None
       THEN end(tbl, active_session[1], t)
       ELSE IF active_schedule # None /\ active_session # None
       THEN IF budget_changed(active_schedule[1], tbl[active_session[1]])
            THEN save(end(tbl, active_session[1], t),
                      FocusSession_new(active_schedule[1].distraction_budget, TRUE, t))
            ELSE tbl
       ELSE tbl

\* check_schedules whose (Some(schedule), None) arm starts a manual session
check_schedules_rows_untagged(tbl, active_schedule, t) ==
    LET active_session == find_active(tbl)
    IN IF active_schedule # None /\ active_session = None
       THEN save(tbl, FocusSession_new(active_schedule[1].distraction_budget, FALSE, t))
       ELSE IF active_schedule = None /\ active_session # None
               /\ tbl[active_session[1]].scheduled
       THEN end(tbl, active_session[1], t)
       ELSE IF active_schedule # None /\ active_session # None
               /\ tbl[active_session[1]].scheduled
       THEN IF budget_changed(active_schedule[1], tbl[active_session[1]])
            THEN save(end(tbl, active_session[1], t),
                      FocusSession_new(active_schedule[1].distraction_budget, TRUE, t))
            ELSE tbl
       ELSE tbl

\* check_schedules whose (None, Some(scheduled session)) arm does nothing
check_schedules_rows_keep_orphan(tbl, active_schedule, t) ==
    LET active_session == find_active(tbl)
    IN IF active_schedule # None /\ active_session = None
       THEN save(tbl, FocusSession_new(active_schedule[1].distraction_budget, TRUE, t))
       ELSE IF active_schedule # None /\ active_session # None
               /\ tbl[active_session[1]].scheduled
       THEN IF budget_changed(active_schedule[1], tbl[active_session[1]])
            THEN save(end(tbl, active_session[1], t),
                      FocusSession_new(active_schedule[1].distraction_budget, TRUE, t))
            ELSE tbl
       ELSE tbl

\* check_schedules: the match on (active_schedule, active_session)
check_schedules_rows(tbl, active_schedule, t) ==
    LET active_session == find_active(tbl)
    IN IF active_schedule # None /\ active_session = None
       THEN save(tbl, FocusSession_new(active_schedule[1].distraction_budget, TRUE, t))
       ELSE IF active_schedule = None /\ active_session # None
               /\ tbl[active_session[1]].scheduled
       THEN end(tbl, active_session[1], t)
       ELSE IF active_schedule # None /\ active_session # None
               /\ tbl[active_session[1]].scheduled
       THEN IF budget_changed(active_schedule[1], tbl[active_session[1]])
            THEN save(end(tbl, active_session[1], t),
                      FocusSession_new(active_schedule[1].distraction_budget, TRUE, t))
            ELSE tbl
       ELSE tbl

----------------------------------------------------------------------------
\* Validation (validation.rs) and the values it accepts

\* validate_budget_minutes without the upper limit
validate_budget_minutes_unlimited(budget_minutes) ==
    IF budget_minutes <= 0
    THEN Err("Invalid budget_minutes: must be positive")
    ELSE Ok(budget_minutes * 60)

\* validate_budget_minutes: Ok(budget_secs) or the reason of the rejection
validate_budget_minutes(budget_minutes) ==
    IF budget_minutes <= 0
    THEN Err("Invalid budget_minutes: must be positive")
    ELSE IF budget_minutes > MAX_BUDGET_MINUTES
    THEN Err("Invalid budget_minutes: cannot exceed 1440 minutes")
    ELSE Ok(budget_minutes * 60)

\* every string over alphabet of length lo..hi
StringsOver(alphabet, lo, hi) == UNION {[1..n -> alphabet] : n \in lo..hi}

\* validate_time_format: five bytes, ':' in the middle, hours and minutes
\* that parse as u32 below 24 and 60
validate_time_format(time) ==
    /\ Len(time) = 5
    /\ time[3] = ":"
    /\ parse_u32(SubSeq(time, 1, 2)) # None
    /\ parse_u32(SubSeq(time, 4, 5)) # None
    /\ parse_u32(SubSeq(time, 1, 2))[1] < 24
    /\ parse_u32(SubSeq(time, 4, 5))[1] < 60

\* validate_days_of_week: non-empty, every part a day 1..7 once trimmed
validate_days_of_week(days) ==
    /\ days # <<>>
    /\ \A k \in 1..Len(split_comma(days)) :
           LET day == parse_u32(trim(split_comma(days)[k]))
           IN day # None /\ day[1] >= 1 /\ day[1] <= 7

\* validate_schedule_request
validate_schedule_request(start_time, end_time, days_of_week, budget_secs) ==
    /\ validate_time_format(start_time)
    /\ validate_time_format(end_time)
    /\ validate_days_of_week(days_of_week)
    /\ budget_secs >= 0 /\ budget_secs <= SECS_PER_DAY

Str_0859 == <<"0", "8", ":", "5", "9">>
Str_1159 == <<"1", "1", ":", "5", "9">>
Str_2200 == <<"2", "2", ":", "0", "0">>
Str_0600 == <<"0", "6", ":", "0", "0">>
Str_plus9 == <<"+", "9", ":", "0", "0">>
Str_900 == <<"9", ":", "0", "0">>

\* schedule requests a user may submit; create_focus_schedule stores those
\* that validate_schedule_request accepts
ScheduleRequests ==
    {Sched_morning, Sched_early, Sched_weekend, Sched_disabled,
     Schedule(Str_weekdays, Str_plus9, Str_1200, 120, TRUE),
     Schedule(Str_weekdays, Str_900, Str_1200, 120, TRUE),
     Schedule(Str_weekdays, Str_plus9, Str_0900, 120, TRUE),
     Schedule(Str_mon_wed, Str_2200, Str_0600, 60, TRUE)}

StoredSchedules ==
    {s \in ScheduleRequests :
        validate_schedule_request(s.start_time, s.end_time, s.days_of_week,
                                  s.distraction_budget)}

MaxSchedules == 2

\* the focus_schedules table after 1..MaxSchedules requests were stored
StoredScheduleTables ==
    {tbl \in StringsOver(StoredSchedules, 1, MaxSchedules) :
        \A i, j \in 1..Len(tbl) : i # j => tbl[i] # tbl[j]}

\* days and times get_current_day_and_time can produce
ClockDays == {1, 3, 6}
ClockTimes == {Str_0800, Str_0859, Str_0900, Str_1159, Str_1200, Str_2200}

\* Inputs of the categorizer

MaxPatternLen == 3
MaxTextLen == 4

Str_glob_github == <<"*", ".", "g", "i", "t", "h", "u", "b", ".", "*">>
Str_www_github_com == <<"w", "w", "w", ".", "g", "i", "t", "h", "u", "b", ".", "c", "o", "m">>
Str_gist_github_io == <<"g", "i", "s", "t", ".", "g", "i", "t", "h", "u", "b", ".", "i", "o">>
Str_gitlab_com == <<"g", "i", "t", "l", "a", "b", ".", "c", "o", "m">>
Str_GitHub == <<"G", "i", "t", "h", "u", "b">>

\* patterns validate_rule_pattern accepts (non-empty, trimmed)
Patterns ==
    StringsOver({"a", "A", "b", "*"}, 1, MaxPatternLen)
        \cup {Str_glob_github, Str_GitHub,
              <<"a", "*", "b", "*", "a">>, <<"a", "b", "*", "b", "a">>,
              <<"*", "*", "a", "B", "*", "*">>}

Texts ==
    StringsOver({"a", "A", "b"}, 0, MaxTextLen)
        \cup {Str_www_github_com, Str_gist_github_io, Str_gitlab_com,
              <<"a", "b", "a", "b", "a">>}

\* rules create_rule can have stored: broad and narrow patterns of each kind
RulePool ==
    {Rule(<<"a">>, "app", 1, 5),
     Rule(<<"A", "b">>, "app", 3, 10),
     Rule(<<"a", "b">>, "app", 4, 5),
     Rule(<<"a">>, "title", 2, 20),
     Rule(<<"a">>, "domain", 3, 30),
     Rule(<<"*", "b">>, "domain", 1, 5)}

MaxRules == 2

\* the rules table after up to MaxRules distinct rules were created, in any
\* order of creation
CategorizerRuleTables ==
    {tbl \in StringsOver(RulePool, 0, MaxRules) :
        \A i, j \in 1..Len(tbl) : i # j => tbl[i] # tbl[j]}

\* the categories table with the Uncategorized row renamed by update_category
RenamedCategories ==
    [DEFAULT_CATEGORIES EXCEPT ![5].name = "Other"]

\* the categories table with the Uncategorized row deleted and created anew
RecreatedCategories ==
    [DEFAULT_CATEGORIES EXCEPT ![5].id = 6]

CategoryTables == {DEFAULT_CATEGORIES, RenamedCategories, RecreatedCategories}

AppNames == {<<"a">>, <<"A", "B">>, <<"g">>}
WindowTitles == {None, Some(<<"b", "a">>), Some(<<"g">>)}
UrlDomains == {<<"a", "b">>, <<"A">>, <<"g">>}

\* Inputs of the sampler: what the platform reports in a cycle

MaxActivities == 2

IdleTimes == {0, 119, 120, 121}
ActiveWindow(app_name, window_title) ==
    [app_name |-> app_name, window_title |-> window_title]
Windows ==
    {None} \cup {Some(ActiveWindow(a, t)) :
                    a \in {<<"a">>, <<"g">>}, t \in {<<"b", "a">>, <<"g">>}}

\* the rules the sampler categorizes with: a Title rule above an App rule
TrackerRules ==
    <<Rule(<<"a">>, "app", 1, 5), Rule(<<"a">>, "title", 2, 20)>>

\* the start() calls made on one TrackerService
MaxStarts == 2

\* the mutexes of one process: Arc<Mutex<Database>>, Arc<Mutex<Categorizer>>
\* and FocusManager.last_distraction_request
Locks == {"db", "categorizer", "rate_limit"}

\* the threads that take them: the sampler, a thread running commands and
\* FocusManager operations, and the message loop of the native host
LockThreads == {"sampler", "ui", "host"}

\* a thread outside every handler
Idle == [op |-> "idle", i |-> 0, local |-> 0]

\* setup (lib.rs) and main (foxus-native-host.rs): each process builds its
\* Categorizer from the store; no lock is poisoned, nothing was written yet
SetupDone ==
    /\ categorizer = Categorizer_new(rules, categories)
    /\ host_categorizer = Categorizer_new(rules, categories)
    /\ poisoned = {}
    /\ reply = None
    /\ lock_holder = [l \in Locks |-> "free"]
    /\ handler = [t \in LockThreads |-> Idle]

\* TrackerService::new: the run flag is clear and no sampler thread exists
TrackerIdle ==
    /\ running = FALSE
    /\ sampler = "unspawned"
    /\ activities = <<>>
    /\ main = "setup"
    /\ loops = [i \in 1..MaxStarts |-> "unspawned"]

----------
\* Initial state: FocusManager::new over a migrated store with no session

----------------------------------------------------------------------------
\* FocusManager over a store whose calls can fail. fail is the position, in
\* the order the operation makes them, of the store call that returns an
\* error (0, or a position the operation does not reach: none fails). An
\* operation returns at its first error (the ? operator) and keeps what it
\* wrote before: no transaction is open.

\* FocusManager::get_state: find_active, then get_blocked_domains
FocusManager_get_state(session_tbl, rule_tbl, category_tbl, t, fail) ==
    IF fail \in {1, 2}
    THEN Err("rusqlite")
    ELSE Ok(get_state_value(session_tbl, rule_tbl, category_tbl, t))

\* FocusManager::start_session: find_active, end (if a session is active),
\* save
FocusManager_start_session(tbl, distraction_budget_secs, t, fail) ==
    LET existing == find_active(tbl)
        ended == IF existing # None THEN end(tbl, existing[1], t) ELSE tbl
        calls == IF existing # None THEN 3 ELSE 2
    IN IF fail \notin 1..calls
       THEN [res |-> Ok(Len(tbl) + 1),
             tbl |-> start_rows(tbl, distraction_budget_secs, FALSE, t)]
       ELSE IF fail = calls
       THEN [res |-> Err("rusqlite"), tbl |-> ended]
       ELSE [res |-> Err("rusqlite"), tbl |-> tbl]

\* FocusManager::end_session: find_active, end (if a session is active)
FocusManager_end_session(tbl, t, fail) ==
    LET session == find_active(tbl)
    IN IF fail = 1 \/ (fail = 2 /\ session # None)
       THEN [res |-> Err("rusqlite"), tbl |-> tbl]
       ELSE IF session # None
       THEN [res |-> Ok(session), tbl |-> end(tbl, session[1], t)]
       ELSE [res |-> Ok(None), tbl |-> tbl]

\* FocusManager::check_schedules: find_enabled, find_active, then the end
\* and save of the arm taken
FocusManager_check_schedules(session_tbl, schedule_tbl, t, fail) ==
    LET day_time == get_current_day_and_time(t)
        active_schedule ==
            find_active_schedule(schedule_tbl, day_time[1], day_time[2])
        active_session == find_active(session_tbl)
        done == check_schedules_rows(session_tbl, active_schedule, t)
        writes == IF done = session_tbl THEN 0
                  ELSE IF active_schedule # None /\ active_session # None THEN 2
                  ELSE 1
    IN IF fail \notin 1..(2 + writes)
       THEN [res |-> Ok(<<>>), tbl |-> done]
       ELSE IF fail = 4
       THEN [res |-> Err("rusqlite"),
             tbl |-> end(session_tbl, active_session[1], t)]
       ELSE [res |-> Err("rusqlite"), tbl |-> session_tbl]

\* the rate-limited branch as the doc comment of use_distraction_time has it:
\* None, whether a session is active or not
FocusManager_rate_limited_none(tbl, fail) ==
    IF fail = 1 THEN Err("rusqlite") ELSE Ok(None)

\* FocusManager::use_distraction_time, the answer of a rate-limited call:
\* find_active
FocusManager_rate_limited(tbl, fail) ==
    LET session == find_active(tbl)
    IN IF fail = 1 THEN Err("rusqlite")
       ELSE IF session # None THEN Ok(Some(budget_remaining(tbl[session[1]])))
       ELSE Ok(None)

\* FocusManager::use_distraction_time, the store section of an accepted
\* call: find_active, add_distraction_time (if a session is active)
FocusManager_deduct(tbl, secs, fail) ==
    LET session == find_active(tbl)
        added == add_distraction_time(tbl, session[1], secs)
    IN IF fail = 1 \/ (fail = 2 /\ session # None)
       THEN [res |-> Err("rusqlite"), tbl |-> tbl]
       ELSE IF session # None
       THEN [res |-> Ok(Some(budget_remaining(added[session[1]]))), tbl |-> added]
       ELSE [res |-> Ok(None), tbl |-> tbl]

\* db::helpers::with_connection: db.lock().map_err(..)?, then the closure with
\* its error mapped to the same message
with_connection(lock_poisoned, operation, res) ==
    IF lock_poisoned THEN Err("Failed to " \o operation)
    ELSE IF res.ok THEN res
    ELSE Err("Failed to " \o operation)

\* FocusSchedule::find_all: SELECT ... ORDER BY start_time
FocusSchedule_find_all(tbl, fail) ==
    IF fail = 1 THEN Err("rusqlite")
    ELSE LET ids == SortByStartTime(tbl, DOMAIN tbl)
         IN Ok([k \in DOMAIN ids |-> tbl[ids[k]]])

Init ==
    /\ now = 0
    /\ sessions = <<>>
    /\ schedules \in ScheduleTables
    /\ rules = DefaultRules
    /\ categories = DEFAULT_CATEGORIES
    /\ last_distraction_request = None
    /\ pc = [th \in Threads |-> "idle"]
    /\ secs_arg = [th \in Threads |-> 0]
    /\ result = [op |-> "new", val |-> <<>>]
    /\ input = <<>>
    /\ TrackerIdle
    /\ SetupDone

\* the same, over each of the rule tables and with or without a schedule
InitBlock ==
    /\ now = 0
    /\ sessions = <<>>
    /\ schedules \in {<<>>, <<Sched_morning>>}
    /\ rules \in RuleTables
    /\ categories = DEFAULT_CATEGORIES
    /\ last_distraction_request = None
    /\ pc = [th \in Threads |-> "idle"]
    /\ secs_arg = [th \in Threads |-> 0]
    /\ result = [op |-> "new", val |-> <<>>]
    /\ input = <<>>
    /\ TrackerIdle
    /\ SetupDone

\* an operation returns val; it writes msg to the extension (none but for the
\* request handlers of the native host)
Replies(op, val, msg) ==
    /\ result' = [op |-> op, val |-> val]
    /\ reply' = msg

Returns(op, val) == Replies(op, val, None)

\* the host clock advances
Tick(d) ==
    /\ now + d <= MaxTime
    /\ now' = now + d
    /\ UNCHANGED <<input, tracker_vars, thread_vars, cache_vars, sessions, schedules, rules, categories,
                   last_distraction_request, pc, secs_arg, result, reply>>

\* start_session as it would be if the rate-limit window belonged to the
\* session: a new session reopens the window
start_session_reopens_window(distraction_budget_secs) ==
    /\ Len(sessions) < MaxSessions
    /\ sessions' = start_rows(sessions, distraction_budget_secs, FALSE, UnixNow)
    /\ Returns("start_session", Some(Len(sessions')))
    /\ last_distraction_request' = None
    /\ UNCHANGED <<input, tracker_vars, thread_vars, cache_vars, now, schedules, rules, categories,
                   pc, secs_arg>>

\* FocusManager::start_session
start_session(distraction_budget_secs) ==
    /\ Len(sessions) < MaxSessions
    /\ sessions' = start_rows(sessions, distraction_budget_secs, FALSE, UnixNow)
    /\ Returns("start_session", Some(Len(sessions')))
    /\ UNCHANGED <<input, tracker_vars, thread_vars, cache_vars, now, schedules, rules, categories,
                   last_distraction_request, pc, secs_arg>>

\* FocusManager::start_scheduled_session
start_scheduled_session(distraction_budget_secs) ==
    /\ Len(sessions) < MaxSessions
    /\ sessions' = start_rows(sessions, distraction_budget_secs, TRUE, UnixNow)
    /\ Returns("start_scheduled_session", Some(Len(sessions')))
    /\ UNCHANGED <<input, tracker_vars, thread_vars, cache_vars, now, schedules, rules, categories,
                   last_distraction_request, pc, secs_arg>>

\* FocusManager::end_session
end_session ==
    LET session == find_active(sessions)
    IN /\ sessions' = IF session # None
                      THEN end(sessions, session[1], UnixNow)
                      ELSE sessions
       /\ Returns("end_session", session)
       /\ UNCHANGED <<input, tracker_vars, thread_vars, cache_vars, now, schedules, rules, categories,
                      last_distraction_request, pc, secs_arg>>

\* FocusManager::get_state
get_state ==
    /\ Returns("get_state", get_state_value(sessions, rules, categories, UnixNow))
    /\ UNCHANGED <<input, tracker_vars, thread_vars, cache_vars, now, sessions, schedules, rules, categories,
                   last_distraction_request, pc, secs_arg>>

\* FocusManager::is_domain_blocked
is_domain_blocked(domain) ==
    /\ Returns("is_domain_blocked",
               <<domain,
                 is_domain_blocked_value(
                     get_state_value(sessions, rules, categories, UnixNow), domain)>>)
    /\ UNCHANGED <<input, tracker_vars, thread_vars, cache_vars, now, sessions, schedules, rules, categories,
                   last_distraction_request, pc, secs_arg>>

\* FocusManager::use_distraction_time as called by the native host, first
\* critical section (the rate-limit lock): a rate-limited call answers from
\* the store and returns, and the host replies; an accepted call stamps
\* last_distraction_request and goes on to the store
use_distraction_time_gate(th, secs) ==
    /\ pc[th] = "idle"
    /\ IF is_rate_limited(last_distraction_request, now)
       THEN LET ret == FocusManager_rate_limited(sessions, 0).value
            IN /\ Replies("use_distraction_time", ret,
                          NativeHost_use_distraction_time(Ok(ret)))
               /\ UNCHANGED <<last_distraction_request, pc, secs_arg>>
       ELSE /\ last_distraction_request' = Some(now)
            /\ pc' = [pc EXCEPT ![th] = "deduct"]
            /\ secs_arg' = [secs_arg EXCEPT ![th] = secs]
            /\ UNCHANGED <<result, reply>>
    /\ UNCHANGED <<input, tracker_vars, thread_vars, cache_vars, now, sessions, schedules, rules, categories>>

\* FocusManager::use_distraction_time, second critical section (the store
\* lock) of an accepted call, and the reply of the host
use_distraction_time_deduct(th) ==
    /\ pc[th] = "deduct"
    /\ LET session == find_active(sessions)
       IN IF session # None
          THEN /\ sessions' = add_distraction_time(sessions, session[1], secs_arg[th])
               /\ Replies("use_distraction_time",
                          Some(budget_remaining(sessions'[session[1]])),
                          NativeHost_use_distraction_time(
                              Ok(Some(budget_remaining(sessions'[session[1]])))))
          ELSE /\ UNCHANGED sessions
               /\ Replies("use_distraction_time", None,
                          NativeHost_use_distraction_time(Ok(None)))
    /\ pc' = [pc EXCEPT ![th] = "idle"]
    /\ secs_arg' = [secs_arg EXCEPT ![th] = 0]
    /\ UNCHANGED <<input, tracker_vars, thread_vars, cache_vars, now, schedules, rules, categories, last_distraction_request>>

\* FocusManager::check_schedules
check_schedules ==
    LET day_time == get_current_day_and_time(UnixNow)
        active_schedule == find_active_schedule(schedules, day_time[1], day_time[2])
    IN /\ sessions' = check_schedules_rows(sessions, active_schedule, UnixNow)
       /\ Len(sessions') <= MaxSessions
       /\ Returns("check_schedules", <<>>)
       /\ UNCHANGED <<input, tracker_vars, thread_vars, cache_vars, now, schedules, rules, categories,
                      last_distraction_request, pc, secs_arg>>

Next ==
    \/ \E d \in TickSteps : Tick(d)
    \/ \E b \in SessionBudgets : start_session(b)
    \/ \E b \in SessionBudgets : start_scheduled_session(b)
    \/ end_session
    \/ get_state
    \/ \E th \in Threads, secs \in DistractionSecs : use_distraction_time_gate(th, secs)
    \/ \E th \in Threads : use_distraction_time_deduct(th)
    \/ check_schedules

Spec == Init /\ [][Next]_vars

\* the domain block oracle over the session state machine
NextBlock ==
    \/ \E d \in TickSteps : Tick(d)
    \/ \E b \in SessionBudgets : start_session(b)
    \/ end_session
    \/ check_schedules
    \/ \E domain \in Domains : is_domain_blocked(domain)

SpecBlock == InitBlock /\ [][NextBlock]_vars

----------------------------------------------------------------------------
\* The categorizer over a store with rules and categories edited by the user

InitCategorizer ==
    /\ now = 0
    /\ sessions = <<>>
    /\ schedules = <<>>
    /\ rules \in CategorizerRuleTables
    /\ categories \in CategoryTables
    /\ last_distraction_request = None
    /\ pc = [th \in Threads |-> "idle"]
    /\ secs_arg = [th \in Threads |-> 0]
    /\ result = [op |-> "new", val |-> <<>>]
    /\ input = <<>>
    /\ TrackerIdle
    /\ SetupDone

categorize_app(app_name, window_title) ==
    /\ input' = <<app_name, window_title>>
    /\ Returns("categorize_app",
               categorize_app_value(categorizer, app_name, window_title))
    /\ UNCHANGED <<now, sessions, schedules, rules, categories,
                   last_distraction_request, pc, secs_arg, tracker_vars, thread_vars, cache_vars>>

categorize_url(domain) ==
    /\ input' = <<domain>>
    /\ Returns("categorize_url",
               categorize_url_value(host_categorizer, domain))
    /\ UNCHANGED <<now, sessions, schedules, rules, categories,
                   last_distraction_request, pc, secs_arg, tracker_vars, thread_vars, cache_vars>>

NextCategorizer ==
    \/ \E app_name \in AppNames, window_title \in WindowTitles :
           categorize_app(app_name, window_title)
    \/ \E domain \in UrlDomains : categorize_url(domain)

SpecCategorizer == InitCategorizer /\ [][NextCategorizer]_vars

\* The schedule predicate over stored schedules

InitSchedule ==
    /\ now = 0
    /\ sessions = <<>>
    /\ schedules \in StoredScheduleTables
    /\ rules = DefaultRules
    /\ categories = DEFAULT_CATEGORIES
    /\ last_distraction_request = None
    /\ pc = [th \in Threads |-> "idle"]
    /\ secs_arg = [th \in Threads |-> 0]
    /\ result = [op |-> "new", val |-> <<>>]
    /\ input = <<>>
    /\ TrackerIdle
    /\ SetupDone

\* FocusSchedule::is_active_at applied to row k
call_is_active_at(k, day, time) ==
    /\ input' = <<day, time, k>>
    /\ Returns("is_active_at", is_active_at(schedules[k], day, time))
    /\ UNCHANGED <<now, sessions, schedules, rules, categories,
                   last_distraction_request, pc, secs_arg, tracker_vars, thread_vars, cache_vars>>

get_active_schedule ==
    LET day_time == get_current_day_and_time(UnixNow)
    IN /\ input' = day_time
       /\ Returns("get_active_schedule",
                  find_active_schedule(schedules, day_time[1], day_time[2]))
       /\ UNCHANGED <<now, sessions, schedules, rules, categories,
                      last_distraction_request, pc, secs_arg, tracker_vars, thread_vars, cache_vars>>

NextSchedule ==
    \/ \E d \in TickSteps : Tick(d)
    \/ \E k \in DOMAIN schedules, day \in ClockDays, time \in ClockTimes :
           call_is_active_at(k, day, time)
    \/ get_active_schedule

SpecSchedule == InitSchedule /\ [][NextSchedule]_vars

\* pattern_matches applied to every pattern and text of the bounded sets

InitMatch ==
    /\ now = 0
    /\ sessions = <<>>
    /\ schedules = <<>>
    /\ rules = DefaultRules
    /\ categories = DEFAULT_CATEGORIES
    /\ last_distraction_request = None
    /\ pc = [th \in Threads |-> "idle"]
    /\ secs_arg = [th \in Threads |-> 0]
    /\ result = [op |-> "new", val |-> <<>>]
    /\ input \in Patterns \X Texts
    /\ TrackerIdle
    /\ SetupDone

call_pattern_matches ==
    /\ result.op = "new"
    /\ Returns("pattern_matches", pattern_matches(input[1], input[2]))
    /\ UNCHANGED <<now, sessions, schedules, rules, categories,
                   last_distraction_request, pc, secs_arg, input, tracker_vars, thread_vars, cache_vars>>

NextMatch == call_pattern_matches

SpecMatch == InitMatch /\ [][NextMatch]_vars

----------------------------------------------------------------------------
\* The activity sampler: setup starts it once, the quit handler stops and
\* joins it

InitTracker ==
    /\ now = 0
    /\ sessions = <<>>
    /\ schedules = <<>>
    /\ rules = TrackerRules
    /\ categories = DEFAULT_CATEGORIES
    /\ last_distraction_request = None
    /\ pc = [th \in Threads |-> "idle"]
    /\ secs_arg = [th \in Threads |-> 0]
    /\ result = [op |-> "new", val |-> <<>>]
    /\ input = <<>>
    /\ TrackerIdle
    /\ SetupDone

focus_vars == <<now, sessions, schedules, rules, categories,
                last_distraction_request, pc, secs_arg>>

\* TrackerService::start: set the flag and spawn the sampler thread
tracker_start ==
    /\ main = "setup"
    /\ running' = TRUE
    /\ sampler' = "top"
    /\ main' = "started"
    /\ UNCHANGED <<focus_vars, cache_vars, thread_vars, result, reply, input, activities>>

\* the sampler at the top of a cycle: the loop condition
sampler_check ==
    /\ sampler = "top"
    /\ sampler' = IF loop_continues(running) THEN "cycle" ELSE "done"
    /\ UNCHANGED <<focus_vars, cache_vars, thread_vars, result, reply, input, running, activities, main>>

\* the body of a cycle, the platform reporting idle_secs and window
sampler_cycle(idle_secs, window) ==
    /\ sampler = "cycle"
    /\ input' = <<idle_secs, window>>
    /\ activities' = IF is_sampled(idle_secs, window)
                     THEN record_sample(activities, categorizer,
                                        window[1], UnixNow)
                     ELSE activities
    /\ Len(activities') <= MaxActivities
    /\ sampler' = "sleep"
    /\ UNCHANGED <<focus_vars, cache_vars, thread_vars, result, reply, running, main>>

\* thread::sleep(poll_interval_secs) returns
sampler_wake ==
    /\ sampler = "sleep"
    /\ sampler' = "top"
    /\ UNCHANGED <<focus_vars, cache_vars, thread_vars, result, reply, input, running, activities, main>>

\* TrackerService::stop
tracker_stop ==
    /\ main \in {"started", "stopped"}
    /\ running' = FALSE
    /\ main' = "stopped"
    /\ UNCHANGED <<focus_vars, cache_vars, thread_vars, result, reply, input, sampler, activities>>

\* TrackerService::is_running
is_running ==
    /\ Returns("is_running", running)
    /\ UNCHANGED <<focus_vars, cache_vars, thread_vars, input, tracker_vars, thread_vars>>

\* a quit handler that drops the handle instead of joining it
tracker_join_no_wait ==
    /\ main = "stopped"
    /\ main' = "joined"
    /\ UNCHANGED <<focus_vars, cache_vars, thread_vars, result, reply, input, running, sampler, activities>>

\* JoinHandle::join in the quit handler: returns once the thread has ended
tracker_join ==
    /\ main = "stopped"
    /\ sampler = "done"
    /\ main' = "joined"
    /\ UNCHANGED <<focus_vars, cache_vars, thread_vars, result, reply, input, running, sampler, activities>>

SamplerStep ==
    \/ sampler_check
    \/ \E idle_secs \in IdleTimes, window \in Windows :
           sampler_cycle(idle_secs, window)
    \/ sampler_wake

NextTracker ==
    \/ tracker_start
    \/ sampler_check
    \/ \E idle_secs \in IdleTimes, window \in Windows :
           sampler_cycle(idle_secs, window)
    \/ sampler_wake
    \/ tracker_stop
    \/ is_running
    \/ tracker_join

SpecTracker == InitTracker /\ [][NextTracker]_vars

\* the operating system schedules the sampler thread and the joining thread
SpecTrackerFair ==
    /\ InitTracker
    /\ [][NextTracker]_vars
    /\ WF_vars(SamplerStep)
    /\ WF_vars(tracker_join)

----------------------------------------------------------------------------
\* Properties

\* the active session row, and the schedule check_schedules sees, in a state
ActiveSession == find_active(sessions)
ActiveRow == sessions[ActiveSession[1]]
ActiveSchedule ==
    LET day_time == get_current_day_and_time(UnixNow)
    IN find_active_schedule(schedules, day_time[1], day_time[2])

----------------------------------------------------------------------------
\* get_current_day_and_time applied to the timestamps of the bounded set

\* the days since the epoch the clock is read on: the first MaxClockDays + 1
\* days, and as many from Monday 2024-01-01 on
MaxClockDays == 7
FirstDayOf2024 == 19723
ClockDates ==
    (0..MaxClockDays) \cup (FirstDayOf2024..(FirstDayOf2024 + MaxClockDays))

\* seconds into the day: both ends of the day, of an hour, of a minute
ClockSeconds ==
    {0, 59, 60, 3599, 3600, 32399, 32400, 35999, 43200, 86340, 86399}

Timestamps == {(d * SECS_PER_DAY) + s : d \in ClockDates, s \in ClockSeconds}

InitClock ==
    /\ now = 0
    /\ sessions = <<>>
    /\ schedules = <<>>
    /\ rules = DefaultRules
    /\ categories = DEFAULT_CATEGORIES
    /\ last_distraction_request = None
    /\ pc = [th \in Threads |-> "idle"]
    /\ secs_arg = [th \in Threads |-> 0]
    /\ result = [op |-> "new", val |-> <<>>]
    /\ input \in {<<t>> : t \in Timestamps}
    /\ TrackerIdle
    /\ SetupDone

\* get_current_day_and_time with SystemTime::now() reading input[1]
call_get_current_day_and_time ==
    /\ result.op = "new"
    /\ Returns("get_current_day_and_time", get_current_day_and_time(input[1]))
    /\ UNCHANGED <<now, sessions, schedules, rules, categories,
                   last_distraction_request, pc, secs_arg, input, tracker_vars, thread_vars,
                   cache_vars>>

NextClock == call_get_current_day_and_time

SpecClock == InitClock /\ [][NextClock]_vars

----------------------------------------------------------------------------
\* The mutators of the session and schedule objects, called on objects that
\* were saved (id = Some(row)) or never saved (id = None)

\* focus_sessions tables: empty, one active session, an ended and an active one
ModelSessionTables ==
    { <<>>,
      <<FocusSession_new(600, FALSE, BaseTime)>>,
      <<[FocusSession_new(60, TRUE, BaseTime - 60)
            EXCEPT !.ended_at = Some(BaseTime), !.distraction_used = 30],
        FocusSession_new(600, FALSE, BaseTime)>> }

ModelScheduleTables == {<<Sched_morning>>, <<Sched_early, Sched_weekend>>}

\* the id of an object: None before save, Some(row id) after
ObjectIds(tbl) == {None} \cup {Some(k) : k \in DOMAIN tbl}

ModelCalls(session_tbl, schedule_tbl) ==
    {<<"end", id>> : id \in ObjectIds(session_tbl)}
    \cup {<<"add_distraction_time", id, secs>> :
             id \in ObjectIds(session_tbl), secs \in {30, 50}}
    \cup {<<"update", id, schedule>> :
             id \in ObjectIds(schedule_tbl),
             schedule \in {Sched_disabled,
                           Schedule(Str_weekend, Str_0900, Str_1200, 600, TRUE)}}

InitModels ==
    /\ now = 0
    /\ sessions \in ModelSessionTables
    /\ schedules \in ModelScheduleTables
    /\ rules = DefaultRules
    /\ categories = DEFAULT_CATEGORIES
    /\ last_distraction_request = None
    /\ pc = [th \in Threads |-> "idle"]
    /\ secs_arg = [th \in Threads |-> 0]
    /\ result = [op |-> "new", val |-> <<>>]
    /\ input \in ModelCalls(sessions, schedules)
    /\ TrackerIdle
    /\ SetupDone

\* session.end(conn)
call_end ==
    /\ result.op = "new"
    /\ input[1] = "end"
    /\ LET out == FocusSession_end(sessions, input[2], UnixNow)
       IN /\ sessions' = out.tbl
          /\ Returns("end", out.res)
    /\ UNCHANGED <<now, schedules, rules, categories, last_distraction_request,
                   pc, secs_arg, input, tracker_vars, thread_vars, cache_vars>>

\* session.add_distraction_time(conn, secs)
call_add_distraction_time ==
    /\ result.op = "new"
    /\ input[1] = "add_distraction_time"
    /\ LET out == FocusSession_add_distraction_time(sessions, input[2], input[3])
       IN /\ sessions' = out.tbl
          /\ Returns("add_distraction_time", out.res)
    /\ UNCHANGED <<now, schedules, rules, categories, last_distraction_request,
                   pc, secs_arg, input, tracker_vars, thread_vars, cache_vars>>

\* schedule.update(conn)
call_update ==
    /\ result.op = "new"
    /\ input[1] = "update"
    /\ LET out == FocusSchedule_update(schedules, input[2], input[3])
       IN /\ schedules' = out.tbl
          /\ Returns("update", out.res)
    /\ UNCHANGED <<now, sessions, rules, categories, last_distraction_request,
                   pc, secs_arg, input, tracker_vars, thread_vars, cache_vars>>

NextModels ==
    \/ call_end
    \/ call_add_distraction_time
    \/ call_update

SpecModels == InitModels /\ [][NextModels]_vars

----------------------------------------------------------------------------
\* The command surface (commands/focus.rs) and the request handlers of the
\* native host (native_host/mod.rs) over a store whose calls can fail and a
\* store mutex that a panicking holder can poison.

\* commands::focus::get_focus_state
get_focus_state(fail) ==
    LET res == FocusManager_get_state(sessions, rules, categories, UnixNow, fail)
    IN /\ Returns("get_focus_state",
                  IF res.ok THEN res ELSE Err("Failed to load focus state"))
       /\ UNCHANGED <<input, tracker_vars, thread_vars, cache_vars, now, sessions, schedules, rules,
                      categories, last_distraction_request, pc, secs_arg>>

\* commands::focus::start_focus_session
start_focus_session(budget_minutes, fail) ==
    LET budget_secs == validate_budget_minutes(budget_minutes)
        started == FocusManager_start_session(sessions, budget_secs.value, UnixNow, fail)
    IN /\ IF ~budget_secs.ok
          THEN /\ Returns("start_focus_session", budget_secs)
               /\ UNCHANGED sessions
          ELSE /\ Len(started.tbl) <= MaxSessions
               /\ sessions' = started.tbl
               /\ Returns("start_focus_session",
                          IF started.res.ok THEN Ok(<<>>)
                          ELSE Err("Failed to start focus session"))
       /\ UNCHANGED <<input, tracker_vars, thread_vars, cache_vars, now, schedules, rules,
                      categories, last_distraction_request, pc, secs_arg>>

\* commands::focus::end_focus_session
end_focus_session(fail) ==
    LET ended == FocusManager_end_session(sessions, UnixNow, fail)
    IN /\ sessions' = ended.tbl
       /\ Returns("end_focus_session",
                  IF ended.res.ok THEN Ok(<<>>)
                  ELSE Err("Failed to end focus session"))
       /\ UNCHANGED <<input, tracker_vars, thread_vars, cache_vars, now, schedules, rules,
                      categories, last_distraction_request, pc, secs_arg>>

\* commands::focus::check_focus_schedules
check_focus_schedules(fail) ==
    LET checked == FocusManager_check_schedules(sessions, schedules, UnixNow, fail)
    IN /\ Len(checked.tbl) <= MaxSessions
       /\ sessions' = checked.tbl
       /\ Returns("check_focus_schedules",
                  IF checked.res.ok THEN Ok(<<>>)
                  ELSE Err("Failed to check schedules"))
       /\ UNCHANGED <<input, tracker_vars, thread_vars, cache_vars, now, schedules, rules,
                      categories, last_distraction_request, pc, secs_arg>>

\* commands::focus::get_focus_schedules
get_focus_schedules(fail) ==
    /\ Returns("get_focus_schedules",
               with_connection("db" \in poisoned, "load schedules",
                               FocusSchedule_find_all(schedules, fail)))
    /\ UNCHANGED <<input, tracker_vars, thread_vars, cache_vars, now, sessions, schedules, rules,
                   categories, last_distraction_request, pc, secs_arg>>

\* NativeHost::handle_message of a request_state message: get_state and the
\* reply written to the extension
request_state(fail) ==
    LET res == FocusManager_get_state(sessions, rules, categories, UnixNow, fail)
    IN /\ Replies("request_state", res, Some(NativeHost_get_state(res)))
       /\ UNCHANGED <<input, tracker_vars, thread_vars, cache_vars, now, sessions, schedules, rules,
                      categories, last_distraction_request, pc, secs_arg>>

\* NativeHost::handle_message of a use_distraction_time message, first
\* critical section of FocusManager::use_distraction_time(30)
host_use_distraction_time_gate(th, fail) ==
    /\ pc[th] = "idle"
    /\ IF is_rate_limited(last_distraction_request, now)
       THEN LET res == FocusManager_rate_limited(sessions, fail)
            IN /\ Replies("use_distraction_time", res,
                          NativeHost_use_distraction_time(res))
               /\ UNCHANGED <<last_distraction_request, pc, secs_arg>>
       ELSE /\ last_distraction_request' = Some(now)
            /\ pc' = [pc EXCEPT ![th] = "deduct"]
            /\ secs_arg' = [secs_arg EXCEPT ![th] = 30]
            /\ UNCHANGED <<result, reply>>
    /\ UNCHANGED <<input, tracker_vars, thread_vars, cache_vars, now, sessions, schedules, rules, categories>>

\* second critical section, and the reply written to the extension
host_use_distraction_time_deduct(th, fail) ==
    /\ pc[th] = "deduct"
    /\ LET deducted == FocusManager_deduct(sessions, secs_arg[th], fail)
       IN /\ sessions' = deducted.tbl
          /\ Replies("use_distraction_time", deducted.res,
                     NativeHost_use_distraction_time(deducted.res))
    /\ pc' = [pc EXCEPT ![th] = "idle"]
    /\ secs_arg' = [secs_arg EXCEPT ![th] = 0]
    /\ UNCHANGED <<input, tracker_vars, thread_vars, cache_vars, now, schedules, rules, categories,
                   last_distraction_request>>

\* a thread of the application panics while it holds the store mutex (the
\* expect on the system clock in FocusManager::get_state, taken with the
\* guard alive): the mutex is poisoned from then on
panic_holding_db ==
    /\ "db" \notin poisoned
    /\ poisoned' = poisoned \cup {"db"}
    /\ UNCHANGED <<now, sessions, schedules, rules, categories,
                   last_distraction_request, pc, secs_arg, result, input,
                   tracker_vars, thread_vars, categorizer, host_categorizer, reply>>

\* the tables of a fresh installation with the three schedules
InitCommands ==
    /\ now = 0
    /\ sessions = <<>>
    /\ schedules = <<Sched_disabled, Sched_morning, Sched_early>>
    /\ rules = DefaultRules
    /\ categories = DEFAULT_CATEGORIES
    /\ last_distraction_request = None
    /\ pc = [th \in Threads |-> "idle"]
    /\ secs_arg = [th \in Threads |-> 0]
    /\ result = [op |-> "new", val |-> <<>>]
    /\ input = <<>>
    /\ TrackerIdle
    /\ SetupDone

NextCommands ==
    \/ \E d \in TickSteps : Tick(d)
    \/ \E fail \in FailPoints(2) : get_focus_state(fail)
    \/ \E budget_minutes \in CommandBudgetMinutes, fail \in FailPoints(3) :
           start_focus_session(budget_minutes, fail)
    \/ \E fail \in FailPoints(2) : end_focus_session(fail)
    \/ \E fail \in FailPoints(4) : check_focus_schedules(fail)
    \/ \E fail \in FailPoints(1) : get_focus_schedules(fail)
    \/ \E fail \in FailPoints(2) : request_state(fail)
    \/ \E fail \in FailPoints(1) : host_use_distraction_time_gate(1, fail)
    \/ \E fail \in FailPoints(2) : host_use_distraction_time_deduct(1, fail)

SpecCommands == InitCommands /\ [][NextCommands]_vars

\* the commands of the application over a store that answers every call, with
\* the panic of a holder of the store mutex
NextPoison ==
    \/ \E d \in TickSteps : Tick(d)
    \/ get_focus_state(0)
    \/ \E budget_minutes \in CommandBudgetMinutes :
           start_focus_session(budget_minutes, 0)
    \/ end_focus_session(0)
    \/ check_focus_schedules(0)
    \/ get_focus_schedules(0)
    \/ panic_holding_db

SpecPoison == InitCommands /\ [][NextPoison]_vars

----------------------------------------------------------------------------
\* The rule commands (commands/rules.rs) of the application, the sampler's
\* categorize_app on the application's Categorizer, and the native host, a
\* process of its own, calling categorize_url on the Categorizer it built
\* when it was launched. A row id of the rules table is the position of the
\* row among the rows still stored.

\* validation::validate_rule_pattern
validate_rule_pattern(pattern) ==
    LET trimmed == trim(pattern)
    IN IF trimmed = <<>>
       THEN Err("Invalid pattern: cannot be empty")
       ELSE IF Len(trimmed) > MAX_RULE_PATTERN_LEN
       THEN Err("Invalid pattern: cannot exceed 500 characters")
       ELSE Ok(trimmed)

\* validation::validate_rule_priority
validate_rule_priority(priority) ==
    IF priority \in 0..MAX_RULE_PRIORITY
    THEN Ok(<<>>)
    ELSE Err("Invalid priority: must be 0-1000")

\* MatchType::from_str
MatchType_from_str(match_type) ==
    IF match_type \in {"app", "domain", "title"} THEN Some(match_type) ELSE None

\* Category::find_by_id
Category_find_by_id(category_tbl, id) ==
    LET found == {k \in DOMAIN category_tbl : category_tbl[k].id = id}
    IN IF found = {} THEN None ELSE Some(category_tbl[CHOOSE k \in found : TRUE])

\* create_rule and update_rule up to the store write: the validated rule, or
\* the error the command returns
validated_rule(category_tbl, pattern, match_type, category_id, priority) ==
    IF ~validate_rule_pattern(pattern).ok THEN validate_rule_pattern(pattern)
    ELSE IF MatchType_from_str(match_type) = None
    THEN Err("Invalid match type: must be 'app', 'domain', or 'title'")
    ELSE IF ~validate_rule_priority(priority).ok THEN validate_rule_priority(priority)
    ELSE IF Category_find_by_id(category_tbl, category_id) = None
    THEN Err("Category not found")
    ELSE Ok(Rule(validate_rule_pattern(pattern).value, match_type,
                 category_id, priority))

\* Rule::create
Rule_create(tbl, rule) == Append(tbl, rule)

\* Rule::update: the row of that id, if stored, takes the new values
Rule_update(tbl, id, rule) ==
    IF id \in DOMAIN tbl THEN [tbl EXCEPT ![id] = rule] ELSE tbl

\* Rule::delete: the row of that id, if stored, is removed
Rule_delete(tbl, id) ==
    IF id \in DOMAIN tbl
    THEN SubSeq(tbl, 1, id - 1) \o SubSeq(tbl, id + 1, Len(tbl))
    ELSE tbl

\* what the GUI hands to create_rule and update_rule: rules of each kind, a
\* blank pattern, an unknown kind, a missing category, a priority too high
RuleRequests ==
    {Rule(<<"a">>, "app", 1, 5),
     Rule(<<"a">>, "title", 2, 20),
     Rule(<<"a">>, "domain", 3, 30),
     Rule(<<"*", "b">>, "domain", 1, 5),
     Rule(<<" ">>, "app", 1, 5),
     Rule(<<"a">>, "regex", 1, 5),
     Rule(<<"a">>, "app", 9, 5),
     Rule(<<"a">>, "app", 1, 1001)}

\* ids handed to update_rule and delete_rule: stored ones and one that is not
RuleIds == 1..(MaxRules + 1)

\* a store without rules (the user has deleted the seeded ones)
InitRules ==
    /\ now = 0
    /\ sessions = <<>>
    /\ schedules = <<>>
    /\ rules = <<>>
    /\ categories = DEFAULT_CATEGORIES
    /\ last_distraction_request = None
    /\ pc = [th \in Threads |-> "idle"]
    /\ secs_arg = [th \in Threads |-> 0]
    /\ result = [op |-> "new", val |-> <<>>]
    /\ input = <<>>
    /\ TrackerIdle
    /\ SetupDone

\* commands::rules::create_rule, with reload_categorizer under the store lock
create_rule(request) ==
    LET rule == validated_rule(categories, request.pattern, request.match_type,
                               request.category_id, request.priority)
    IN /\ IF rule.ok
          THEN /\ Len(rules) < MaxRules
               /\ rules' = Rule_create(rules, rule.value)
               /\ categorizer' = Categorizer_new(rules', categories)
               /\ Returns("create_rule", Ok(Len(rules')))
          ELSE /\ Returns("create_rule", rule)
               /\ UNCHANGED <<rules, categorizer>>
       /\ UNCHANGED <<now, sessions, schedules, categories, last_distraction_request,
                      pc, secs_arg, input, tracker_vars, thread_vars, host_categorizer, poisoned>>

\* commands::rules::update_rule, with reload_categorizer under the store lock
update_rule(id, request) ==
    LET rule == validated_rule(categories, request.pattern, request.match_type,
                               request.category_id, request.priority)
    IN /\ IF rule.ok
          THEN /\ rules' = Rule_update(rules, id, rule.value)
               /\ categorizer' = Categorizer_new(rules', categories)
               /\ Returns("update_rule", Ok(id \in DOMAIN rules))
          ELSE /\ Returns("update_rule", rule)
               /\ UNCHANGED <<rules, categorizer>>
       /\ UNCHANGED <<now, sessions, schedules, categories, last_distraction_request,
                      pc, secs_arg, input, tracker_vars, thread_vars, host_categorizer, poisoned>>

\* commands::rules::delete_rule, with reload_categorizer under the store lock
delete_rule(id) ==
    /\ rules' = Rule_delete(rules, id)
    /\ categorizer' = Categorizer_new(rules', categories)
    /\ Returns("delete_rule", Ok(id \in DOMAIN rules))
    /\ UNCHANGED <<now, sessions, schedules, categories, last_distraction_request,
                   pc, secs_arg, input, tracker_vars, thread_vars, host_categorizer, poisoned>>

\* main of foxus-native-host: the browser launches the host anew, which
\* builds its Categorizer from the store
host_main ==
    /\ host_categorizer' = Categorizer_new(rules, categories)
    /\ UNCHANGED <<now, sessions, schedules, rules, categories,
                   last_distraction_request, pc, secs_arg, result, input,
                   tracker_vars, thread_vars, categorizer, poisoned, reply>>

NextRules ==
    \/ \E request \in RuleRequests : create_rule(request)
    \/ \E id \in RuleIds, request \in RuleRequests : update_rule(id, request)
    \/ \E id \in RuleIds : delete_rule(id)
    \/ \E app_name \in AppNames, window_title \in WindowTitles :
           categorize_app(app_name, window_title)
    \/ \E domain \in UrlDomains : categorize_url(domain)
    \/ host_main

SpecRules == InitRules /\ [][NextRules]_vars

\* C1: in every reachable state, whatever the interleaving of start_session,
\* start_scheduled_session, end_session, use_distraction_time and
\* check_schedules on the threads, at most one session has ended_at = null.
C1_AtMostOneActiveSession ==
    Cardinality(OpenSessions(sessions)) <= 1

\* a second session was started while the first was open and a deduction of
\* another thread is still in flight: the first row is ended, the second open
C1_Witness ==
    /\ Len(sessions) = 2
    /\ sessions[1].ended_at # None
    /\ OpenSessions(sessions) = {2}
    /\ \E th \in Threads : pc[th] = "deduct"

\* C2: check_schedules leaves an active manual session untouched, whatever
\* schedule is active: no row is ended, changed or created.
C2_ManualSessionUntouched ==
    [][(/\ result'.op = "check_schedules"
        /\ ActiveSession # None
        /\ ~ActiveRow.scheduled
        /\ check_schedules)
       => sessions' = sessions]_vars

\* check_schedules has returned while a manual session with time already used
\* was active and a schedule with another budget was active
C2_Witness ==
    /\ result.op = "check_schedules"
    /\ ActiveSession # None
    /\ ~ActiveRow.scheduled
    /\ ActiveRow.distraction_used > 0
    /\ ActiveSchedule # None
    /\ ActiveSchedule[1].distraction_budget # ActiveRow.distraction_budget

UdtReturn(val) == [op |-> "use_distraction_time", val |-> val]

ScheduledRow(S) ==
    [started_at |-> UnixNow, ended_at |-> None, scheduled |-> TRUE,
     distraction_budget |-> S.distraction_budget, distraction_used |-> 0]

\* C4: check_schedules called while a schedule S is active and no session is
\* active inserts exactly one row, which is active, scheduled, has S's
\* budget and no time used.
C4_ScheduleStartsSession ==
    [][(/\ result'.op = "check_schedules"
        /\ ActiveSession = None
        /\ ActiveSchedule # None
        /\ check_schedules)
       => /\ sessions' = Append(sessions, ScheduledRow(ActiveSchedule[1]))
          /\ OpenSessions(sessions') = {Len(sessions')}
          /\ \E k \in DOMAIN schedules :
                 /\ schedules[k] = ActiveSchedule[1]
                 /\ schedules[k].enabled
                 /\ is_active_at(schedules[k],
                                 get_current_day_and_time(UnixNow)[1],
                                 get_current_day_and_time(UnixNow)[2])]_vars

\* check_schedules has created the only session, from the 08:00-09:00 schedule
C4_Witness ==
    /\ result.op = "check_schedules"
    /\ now = 0
    /\ sessions = <<ScheduledRow(Sched_early)>>

\* C5: check_schedules called while no schedule is active ends an active
\* scheduled session and inserts nothing; with no session active it changes
\* nothing.
C5_NoScheduleEndsScheduled ==
    [][(/\ result'.op = "check_schedules"
        /\ ActiveSchedule = None
        /\ check_schedules)
       => /\ (ActiveSession # None /\ ActiveRow.scheduled)
             => /\ sessions' =
                      [sessions EXCEPT ![ActiveSession[1]].ended_at = Some(UnixNow)]
                /\ OpenSessions(sessions') = {}
          /\ ActiveSession = None => sessions' = sessions]_vars

\* with no schedule active, check_schedules has run over a scheduled session
\* that had used time: the session is ended and nothing was inserted
C5_Witness ==
    /\ result.op = "check_schedules"
    /\ ActiveSchedule = None
    /\ Len(sessions) = 1
    /\ sessions[1].scheduled
    /\ sessions[1].distraction_used > 0
    /\ sessions[1].ended_at = Some(UnixNow)

\* C6: check_schedules called while a schedule S and a scheduled session A
\* are active: if their budgets differ by more than 60 seconds it ends A and
\* inserts a scheduled session with S's budget; if they differ by at most 60
\* (60 included) it changes nothing.
C6_BudgetDrift ==
    [][(/\ result'.op = "check_schedules"
        /\ ActiveSchedule # None
        /\ ActiveSession # None
        /\ ActiveRow.scheduled
        /\ check_schedules)
       => LET S == ActiveSchedule[1]
              d == S.distraction_budget - ActiveRow.distraction_budget
              differ == IF d < 0 THEN 0 - d ELSE d
          IN IF differ > 60
             THEN sessions' =
                      Append([sessions EXCEPT ![ActiveSession[1]].ended_at =
                                                  Some(UnixNow)],
                             ScheduledRow(S))
             ELSE sessions' = sessions]_vars

\* check_schedules has run over a scheduled session started at this instant
\* whose budget is exactly 60 below the active schedule's: it is still active
C6_Witness ==
    /\ result.op = "check_schedules"
    /\ ActiveSession # None
    /\ ActiveSchedule # None
    /\ ActiveRow.scheduled
    /\ ActiveRow.started_at = UnixNow
    /\ ActiveSchedule[1].distraction_budget - ActiveRow.distraction_budget = 60

\* the effect of starting a session with budget b and the given tag while
\* session a is active
ReplacesActive(a, b, tag) ==
    /\ Len(sessions') = Len(sessions) + 1
    /\ sessions'[a].ended_at # None
    /\ \A i \in DOMAIN sessions :
           /\ sessions'[i].distraction_used = sessions[i].distraction_used
           /\ i # a => sessions'[i] = sessions[i]
    /\ sessions'[Len(sessions')].scheduled = tag
    /\ sessions'[Len(sessions')].distraction_budget = b
    /\ sessions'[Len(sessions')].distraction_used = 0
    /\ sessions'[Len(sessions')].ended_at = None
    /\ find_active(sessions') = Some(Len(sessions'))
    /\ result'.val = Some(Len(sessions'))

\* C7: start_session(b) called while a session is active sets that session's
\* ended_at and inserts a manual session with budget b and no time used,
\* which is the one find_active then returns; start_scheduled_session(b) does
\* the same with scheduled = true.
C7_StartReplacesActive ==
    [][\A b \in SessionBudgets :
        /\ (/\ result'.op = "start_session"
            /\ ActiveSession # None
            /\ start_session(b))
           => ReplacesActive(ActiveSession[1], b, FALSE)
        /\ (/\ result'.op = "start_scheduled_session"
            /\ ActiveSession # None
            /\ start_scheduled_session(b))
           => ReplacesActive(ActiveSession[1], b, TRUE)]_vars

\* start_scheduled_session has replaced a manual session that had used time
C7_Witness ==
    /\ result = [op |-> "start_scheduled_session", val |-> Some(2)]
    /\ Len(sessions) = 2
    /\ ~sessions[1].scheduled
    /\ sessions[1].distraction_used > 0
    /\ sessions[1].ended_at = Some(sessions[2].started_at)
    /\ sessions[2].scheduled
    /\ find_active(sessions) = Some(2)

\* C8: the remaining budget of every session is
\* max(0, distraction_budget - distraction_used), and neither get_state nor
\* use_distraction_time has reported a negative remaining budget.
C8_RemainingNeverNegative ==
    /\ \A i \in DOMAIN sessions :
           LET left == sessions[i].distraction_budget - sessions[i].distraction_used
           IN /\ budget_remaining(sessions[i]) = IF left > 0 THEN left ELSE 0
              /\ budget_remaining(sessions[i]) >= 0
    /\ result.op = "get_state" => result.val[2] >= 0
    /\ (result.op = "use_distraction_time" /\ result.val # None)
       => result.val[1] >= 0

\* get_state has reported 0 for an active session that used more than its
\* budget
C8_Witness ==
    /\ ActiveSession # None
    /\ ActiveRow.distraction_used > ActiveRow.distraction_budget
    /\ result.op = "get_state"
    /\ result.val[1]
    /\ result.val[2] = 0

\* C9: is_domain_blocked(d) returns false for every domain d while no session
\* is active; after end_session no session is active, and from a state with
\* no active session a session is active again only once a new session row
\* has been started.
C9_UnblockedWithoutSession ==
    [][/\ \A d \in Domains :
            (/\ result'.op = "is_domain_blocked"
             /\ ActiveSession = None
             /\ is_domain_blocked(d))
            => result'.val = <<d, FALSE>>
       /\ (result'.op = "end_session" /\ end_session)
          => find_active(sessions') = None
       /\ (ActiveSession = None /\ find_active(sessions') # None)
          => /\ Len(sessions') = Len(sessions) + 1
             /\ find_active(sessions') = Some(Len(sessions'))
             /\ result'.op \in {"start_session", "check_schedules"}]_vars

\* www.reddit.com, which the default rules block during a session, has been
\* reported unblocked after the only session was ended
C9_Witness ==
    /\ rules = DefaultRules
    /\ Len(sessions) = 1
    /\ sessions[1].ended_at # None
    /\ result = [op |-> "is_domain_blocked", val |-> <<Str_www_reddit, FALSE>>]
    /\ is_domain_blocked_value(
           <<TRUE, 0, get_blocked_domains(rules, categories), None>>,
           Str_www_reddit)

\* the patterns of the Domain-kind rules whose category has productivity < 0
BlockedPatterns ==
    {rules[i].pattern : i \in
        {j \in DOMAIN rules :
            /\ rules[j].match_type = "domain"
            /\ \E k \in DOMAIN categories :
                   /\ categories[k].id = rules[j].category_id
                   /\ categories[k].productivity < 0}}

\* d ends with p: p is a suffix of d
IsSuffix(p, d) == \E k \in 0..Len(d) : SubSeq(d, k + 1, Len(d)) = p

HasWildcardPrefix(p) == Len(p) >= 2 /\ p[1] = "*" /\ p[2] = "."

\* p with one leading "*." removed, if it has one
WithoutOneWildcard(p) ==
    IF HasWildcardPrefix(p) THEN SubSeq(p, 3, Len(p)) ELSE p

\* k wildcard markers in a row
RECURSIVE Wildcards(_)
Wildcards(k) == IF k = 0 THEN <<>> ELSE <<"*", ".">> \o Wildcards(k - 1)

\* d is p with every leading "*." removed
IsWithoutAllWildcards(d, p) ==
    /\ ~HasWildcardPrefix(d)
    /\ \E k \in 0..Len(p) : p = Wildcards(k) \o d

\* C10 as stated: while a session is active, is_domain_blocked(d) is true
\* exactly when d ends with a blocked pattern p or equals p with one leading
\* wildcard marker removed.
C10_AsStated ==
    [][\A d \in Domains :
        (/\ result'.op = "is_domain_blocked"
         /\ ActiveSession # None
         /\ is_domain_blocked(d))
        => result'.val =
               <<d, \E p \in BlockedPatterns :
                        IsSuffix(p, d) \/ d = WithoutOneWildcard(p)>>]_vars

\* C10: while a session is active, is_domain_blocked(d) is true exactly when
\* some Domain-kind rule whose category has productivity < 0 has a pattern p
\* such that d ends with p, or d equals p with every leading "*." removed
\* (all of them, not only the first); in particular every subdomain of a
\* blocked pattern is blocked.
C10_BlockedDomains ==
    [][\A d \in Domains :
        (/\ result'.op = "is_domain_blocked"
         /\ ActiveSession # None
         /\ is_domain_blocked(d))
        => /\ result'.val =
                  <<d, \E p \in BlockedPatterns :
                           IsSuffix(p, d) \/ IsWithoutAllWildcards(d, p)>>
           /\ (\E p \in BlockedPatterns : IsSuffix(<<".">> \o p, d))
              => result'.val[2]]_vars

\* during a session reddit.com has been reported blocked by the pattern
\* "*.*.reddit.com"
C10_Witness ==
    /\ ActiveSession # None
    /\ BlockedPatterns = {Str_wild2_reddit}
    /\ result = [op |-> "is_domain_blocked", val |-> <<Str_reddit, TRUE>>]

\* C16: end_session with a session active sets that session's ended_at and
\* returns it, leaving no session active; with no session active it returns
\* none and changes no row. A second end_session in a row therefore finds no
\* active session and changes nothing.
C16_EndSessionIdempotent ==
    [][(result'.op = "end_session" /\ end_session)
       => IF ActiveSession # None
          THEN /\ sessions' =
                     [sessions EXCEPT ![ActiveSession[1]].ended_at = Some(UnixNow)]
               /\ result'.val = ActiveSession
               /\ find_active(sessions') = None
          ELSE /\ sessions' = sessions
               /\ result'.val = None]_vars

\* end_session has returned none over a table whose only session was ended
\* at this same instant
C16_Witness ==
    /\ result = [op |-> "end_session", val |-> None]
    /\ Len(sessions) = 1
    /\ sessions[1].ended_at = Some(UnixNow)
    /\ ~sessions[1].scheduled

\* C17: no step decreases any session's distraction_used; a new session
\* starts at 0, and distraction_used changes only in the store section of
\* use_distraction_time, by the secs of that call.
C17_UsedNeverDecreases ==
    [][/\ Len(sessions') >= Len(sessions)
       /\ \A i \in DOMAIN sessions :
              /\ sessions'[i].distraction_used >= sessions[i].distraction_used
              /\ sessions'[i].distraction_used # sessions[i].distraction_used
                 => /\ result'.op = "use_distraction_time"
                    /\ \E th \in Threads :
                           /\ pc[th] = "deduct"
                           /\ pc'[th] = "idle"
                           /\ sessions'[i].distraction_used =
                                  sessions[i].distraction_used + secs_arg[th]
       /\ \A i \in DOMAIN sessions' \ DOMAIN sessions :
              sessions'[i].distraction_used = 0]_vars

\* a session has been charged twice
C17_Witness ==
    /\ ActiveSession # None
    /\ ActiveRow.distraction_used = 60
    /\ result = [op |-> "use_distraction_time",
                 val |-> Some(budget_remaining(ActiveRow))]

\* C18: once a session's ended_at is set no step changes any field of its
\* row, and find_active does not return it.
C18_EndedIsTerminal ==
    [][\A i \in DOMAIN sessions :
           sessions[i].ended_at # None
           => /\ i \in DOMAIN sessions'
              /\ sessions'[i] = sessions[i]
              /\ find_active(sessions) # Some(i)
              /\ find_active(sessions') # Some(i)]_vars

\* the first session was ended with time used, and the session started after
\* it has since been charged
C18_Witness ==
    /\ Len(sessions) = 2
    /\ sessions[1].ended_at # None
    /\ sessions[1].distraction_used = 30
    /\ sessions[2].ended_at = None
    /\ sessions[2].distraction_used = 30

\* two characters are the same letter, case ignored
SameLetter(c, d) ==
    \/ c = d
    \/ {c, d} \in {{"a", "A"}, {"b", "B"}, {"g", "G"}}

\* seg occurs in text at position p, case ignored
OccursAt(seg, text, p) ==
    /\ p + Len(seg) - 1 <= Len(text)
    /\ \A i \in 1..Len(seg) : SameLetter(seg[i], text[p + i - 1])

\* the non-empty segments of a pattern, each as <<first, last>> position:
\* the maximal runs of characters other than '*'
Segments(pattern) ==
    {s \in (1..Len(pattern)) \X (1..Len(pattern)) :
        /\ s[1] <= s[2]
        /\ \A i \in s[1]..s[2] : pattern[i] # "*"
        /\ s[1] = 1 \/ pattern[s[1] - 1] = "*"
        /\ s[2] = Len(pattern) \/ pattern[s[2] + 1] = "*"}

\* the segments occur in the text in order as disjoint substrings
OccurInOrder(pattern, text) ==
    \E at \in [Segments(pattern) -> 1..(Len(text) + 1)] :
        /\ \A s \in Segments(pattern) :
               OccursAt(SubSeq(pattern, s[1], s[2]), text, at[s])
        /\ \A s, t \in Segments(pattern) :
               s[1] < t[1] => at[s] + (s[2] - s[1] + 1) <= at[t]

\* C13: pattern_matches ignores case; a pattern without '*' matches iff it
\* occurs as a substring of the text; a pattern with '*' matches iff its
\* non-empty segments all occur in the text in order as disjoint substrings.
\* "*.github.*" matches "www.github.com" and "gist.github.io" but not
\* "gitlab.com".
C13_PatternMatches ==
    /\ result.op = "pattern_matches"
       => result.val =
              IF \E i \in 1..Len(input[1]) : input[1][i] = "*"
              THEN OccurInOrder(input[1], input[2])
              ELSE \E p \in 1..(Len(input[2]) + 1) : OccursAt(input[1], input[2], p)
    /\ (result.op = "pattern_matches" /\ input[1] = Str_glob_github)
       => /\ input[2] = Str_www_github_com => result.val
          /\ input[2] = Str_gist_github_io => result.val
          /\ input[2] = Str_gitlab_com => ~result.val

\* the wildcard pattern "A*b" has matched the text "baAb"
C13_Witness ==
    /\ result = [op |-> "pattern_matches", val |-> TRUE]
    /\ input = <<(<<"A", "*", "b">>), (<<"b", "a", "A", "b">>)>>

\* a pattern matches a text, as C13 states it
MatchesText(pattern, text) ==
    IF \E i \in 1..Len(pattern) : pattern[i] = "*"
    THEN OccurInOrder(pattern, text)
    ELSE \E p \in 1..(Len(text) + 1) : OccursAt(pattern, text, p)

\* the rows of the rules table that apply to the last categorizer call and
\* match its input
MatchingRules ==
    {i \in DOMAIN rules :
        IF result.op = "categorize_app"
        THEN \/ rules[i].match_type = "app" /\ MatchesText(rules[i].pattern, input[1])
             \/ /\ rules[i].match_type = "title"
                /\ input[2] # None
                /\ MatchesText(rules[i].pattern, input[2][1])
        ELSE /\ result.op = "categorize_url"
             /\ rules[i].match_type = "domain"
             /\ MatchesText(rules[i].pattern, input[1])}

CategorizerCalled == result.op \in {"categorize_app", "categorize_url"}

UncategorizedIds ==
    {categories[k].id : k \in {j \in DOMAIN categories :
                                  categories[j].name = "Uncategorized"}}

C12_HighestPriorityWins ==
    CategorizerCalled
    => \A i \in MatchingRules :
           (\A j \in MatchingRules \ {i} : rules[i].priority > rules[j].priority)
           => result.val = rules[i].category_id

\* the narrow rule "Ab" (priority 10), created after the broad rule "a"
\* (priority 5), has decided the category of app "AB"
C12_Witness ==
    /\ result = [op |-> "categorize_app", val |-> 3]
    /\ rules = <<Rule(<<"a">>, "app", 1, 5), Rule(<<"A", "b">>, "app", 3, 10)>>
    /\ input = <<(<<"A", "B">>), None>>
    /\ MatchingRules = {1, 2}

\* C14: the result of categorize_app is the category of an App rule matching
\* the app name or of a Title rule matching the supplied title, else the
\* default; the result of categorize_url is the category of a matching Domain
\* rule, else the default; and the result is the one obtained with all rules
\* of the other kinds removed.
C14_OnlyApplicableKinds ==
    /\ CategorizerCalled
       => IF MatchingRules = {}
          THEN result.val = Categorizer_new(rules, categories).default_category_id
          ELSE \E i \in MatchingRules : result.val = rules[i].category_id
    /\ result.op = "categorize_app"
       => result.val =
              LET applicable(r) == r.match_type \in {"app", "title"}
              IN categorize_app_value(
                     Categorizer_new(SelectSeq(rules, applicable), categories),
                     input[1], input[2])
    /\ result.op = "categorize_url"
       => result.val =
              LET applicable(r) == r.match_type = "domain"
              IN categorize_url_value(
                     Categorizer_new(SelectSeq(rules, applicable), categories),
                     input[1])

\* a Domain rule "a" of priority 30 and a Title rule "a" were stored, app "a"
\* was categorized with no title, and the result is the default: neither rule
\* was applied
C14_Witness ==
    /\ result = [op |-> "categorize_app", val |-> 5]
    /\ rules = <<Rule(<<"a">>, "domain", 3, 30), Rule(<<"a">>, "title", 2, 20)>>
    /\ input = <<(<<"a">>), None>>
    /\ categories = DEFAULT_CATEGORIES

\* the time of day a stored "HH:MM" value denotes, in minutes
MinutesOf(time) ==
    parse_u32(SubSeq(time, 1, 2))[1] * 60 + parse_u32(SubSeq(time, 4, 5))[1]

\* the day set a stored days_of_week value denotes
DaySetOf(days) ==
    {parse_u32(trim(split_comma(days)[k]))[1] : k \in 1..Len(split_comma(days))}

\* the activation predicate as C15 states it
ActiveAsStated(schedule, day, time) ==
    /\ schedule.enabled
    /\ day \in DaySetOf(schedule.days_of_week)
    /\ MinutesOf(schedule.start_time) <= MinutesOf(time)
    /\ MinutesOf(time) < MinutesOf(schedule.end_time)

\* C15: a schedule is active at (day, HH:MM) iff it is enabled, its day set
\* contains day, and start_time <= HH:MM < end_time; get_active_schedule
\* returns a schedule iff some enabled schedule satisfies this predicate, and
\* the one it returns satisfies it.
C15_AsStated ==
    /\ result.op = "is_active_at"
       => result.val = ActiveAsStated(schedules[input[3]], input[1], input[2])
    /\ result.op = "get_active_schedule"
       => /\ result.val # None
             <=> \E k \in DOMAIN schedules :
                     ActiveAsStated(schedules[k], input[1], input[2])
          /\ result.val # None
             => ActiveAsStated(result.val[1], input[1], input[2])

TrackerStopped == main \in {"stopped", "joined"}

\* C20: stop() only clears the run flag, and a repeated stop() changes
\* nothing; from the first stop() on the flag stays clear and is_running()
\* returns false; the sampler, once at the top of a cycle after stop(), leaves
\* the loop; so after stop() the sampler thread eventually ends and the join
\* eventually completes.
C20_StopEndsSampler ==
    /\ [][tracker_stop
          => /\ running' = FALSE
             /\ UNCHANGED <<focus_vars, cache_vars, thread_vars, result, reply, input, sampler, activities>>]_vars
    /\ [][(main = "stopped" /\ tracker_stop) => UNCHANGED vars]_vars
    /\ [](TrackerStopped => ~running)
    /\ [][(TrackerStopped /\ is_running) => result'.val = FALSE]_vars
    /\ [][(TrackerStopped /\ sampler = "top" /\ sampler' # sampler)
          => sampler' = "done"]_vars
    /\ (main = "stopped") ~> (sampler = "done")
    /\ (main = "stopped") ~> (main = "joined")

\* after a sample was recorded the tracker was stopped, the sampler left its
\* loop and the join returned; is_running has answered false
C20_Witness ==
    /\ main = "joined"
    /\ sampler = "done"
    /\ ~running
    /\ Len(activities) = 1
    /\ result = [op |-> "is_running", val |-> FALSE]

----------------------------------------------------------------------------
\* Properties of the state reported and of concurrent calls

\* what is left of the budget of row i, computed from its two columns
Remaining(i) ==
    LET left == sessions[i].distraction_budget - sessions[i].distraction_used
    IN IF left > 0 THEN left ELSE 0

\* the manual sessions not yet ended: started by a start_session that returned
OpenManual == {i \in DOMAIN sessions :
                  sessions[i].ended_at = None /\ ~sessions[i].scheduled}

\* C21 as stated: once start_session has returned, every later get_state on
\* any thread reports active = true with the new session's budget, until an
\* operation ends that session.
C21_AsStated ==
    [][(result'.op = "get_state" /\ get_state)
       => \A k \in OpenManual :
              /\ result'.val[1] = TRUE
              /\ result'.val[2] = sessions[k].distraction_budget]_vars

\* C21: once start_session(b) has returned, the store holds the new session,
\* and every later get_state on any thread reports active = true with that
\* session's remaining budget (b less the distraction time used on it since,
\* not below 0; b itself right after the start), until an operation ends the
\* session.
C21_StartThenGetState ==
    [][/\ \A b \in SessionBudgets :
            (result'.op = "start_session" /\ start_session(b))
            => /\ OpenManual' = {Len(sessions')}
               /\ sessions'[Len(sessions')].distraction_budget = b
               /\ sessions'[Len(sessions')].distraction_used = 0
       /\ (result'.op = "get_state" /\ get_state)
          => \A k \in OpenManual :
                 /\ result'.val[1] = TRUE
                 /\ result'.val[2] = Remaining(k)]_vars

\* get_state has reported the session started by start_session as active,
\* with 30 seconds less than its budget, while another call is in flight
C21_Witness ==
    /\ result.op = "get_state"
    /\ OpenManual = {1}
    /\ sessions[1].distraction_used = 30
    /\ result.val[1] = TRUE
    /\ result.val[2] = sessions[1].distraction_budget - 30
    /\ \E th \in Threads : pc[th] = "deduct"

HostReturned(th) ==
    \/ pc[th] = "deduct" /\ use_distraction_time_deduct(th)
    \/ /\ pc[th] = "idle"
       /\ pc' = pc
       /\ \E secs \in DistractionSecs : use_distraction_time_gate(th, secs)

\* C26: to a use_distraction_time message the native host replies hard_blocked
\* exactly when a session is active and its remaining budget after the call
\* is 0, budget_updated with the remaining budget when that is above 0, and
\* nothing when no session is active.
C26_HostReply ==
    [][\A th \in Threads :
        HostReturned(th)
        => LET open == {i \in DOMAIN sessions' : sessions'[i].ended_at = None}
           IN /\ open = {} => reply' = None
              /\ \A k \in open :
                     /\ Remaining(k)' = 0 => reply' = Some(HardBlocked)
                     /\ Remaining(k)' > 0
                        => reply' = Some(BudgetUpdated(Remaining(k)'))
              /\ reply' = Some(HardBlocked)
                 <=> \E k \in open : Remaining(k)' = 0]_vars

\* the host has replied hard_blocked for a session that used more than its
\* budget
C26_Witness ==
    /\ reply = Some(HardBlocked)
    /\ result.op = "use_distraction_time"
    /\ ActiveSession # None
    /\ ActiveRow.distraction_used = 60
    /\ ActiveRow.distraction_budget < 60

\* C27: get_state reports active = false, budget_remaining = 0 and
\* session_duration_secs = None exactly when no session has ended_at = null;
\* otherwise it reports active = true, the remaining budget of the active
\* session and session_duration_secs = max(0, now - started_at).
C27_GetStateValue ==
    [][(result'.op = "get_state" /\ get_state)
       => LET open == {i \in DOMAIN sessions : sessions[i].ended_at = None}
              elapsed(k) == UnixNow - sessions[k].started_at
          IN /\ result'.val[1] = (open # {})
             /\ open = {}
                => /\ result'.val[2] = 0
                   /\ result'.val[4] = None
             /\ \A k \in open :
                    /\ result'.val[2] = Remaining(k)
                    /\ result'.val[4] =
                           Some(IF elapsed(k) > 0 THEN elapsed(k) ELSE 0)]_vars

\* get_state has reported a session started 25 seconds ago, with time used
C27_Witness ==
    /\ result.op = "get_state"
    /\ ActiveSession # None
    /\ result.val[1] = TRUE
    /\ result.val[4] = Some(25)
    /\ ActiveRow.distraction_used > 0
    /\ result.val[2] = ActiveRow.distraction_budget - ActiveRow.distraction_used

\* the distraction time used over all rows, and the secs of the accepted
\* calls that have not reached the store yet
RECURSIVE UsedUpTo(_, _)
UsedUpTo(tbl, n) ==
    IF n = 0 THEN 0 ELSE tbl[n].distraction_used + UsedUpTo(tbl, n - 1)
TotalUsed == UsedUpTo(sessions, Len(sessions))

RECURSIVE InFlightUpTo(_)
InFlightUpTo(n) ==
    IF n = 0 THEN 0
    ELSE (IF pc[n] = "deduct" THEN secs_arg[n] ELSE 0) + InFlightUpTo(n - 1)
InFlight == InFlightUpTo(NumThreads)

\* C30: with several threads calling use_distraction_time during a session,
\* the rate-limit test and the update of the timestamp are one atomic step:
\* a call is accepted only 25 seconds or more after the last accepted one and
\* stamps the timestamp as it is accepted; only an accepted call deducts, and
\* it adds exactly its secs to the active session; so the calls made within
\* any 25-second window deduct one call's secs at most.
C30_AtomicRateLimit ==
    /\ [][\A th \in Threads :
            (pc[th] = "idle" /\ pc'[th] = "deduct")
            => /\ \/ last_distraction_request = None
                  \/ now - last_distraction_request[1] >= 25
               /\ last_distraction_request' = Some(now)
               /\ \A other \in Threads \ {th} : pc'[other] = pc[other]]_vars
    /\ [][\A th \in Threads :
            (pc[th] = "deduct" /\ pc'[th] = "idle")
            => IF ActiveSession # None
               THEN sessions' =
                        [sessions EXCEPT ![ActiveSession[1]].distraction_used =
                                             @ + secs_arg[th]]
               ELSE sessions' = sessions]_vars
    /\ [][UsedUpTo(sessions', Len(sessions')) # TotalUsed
          => \E th \in Threads : pc[th] = "deduct" /\ pc'[th] = "idle"]_vars
    /\ [](TotalUsed + InFlight <= 30 * (1 + (now \div 25)))

\* at one instant a call was accepted and is still on its way to the store
\* while a call of another thread was answered with the untouched budget
C30_Witness ==
    /\ now = 0
    /\ last_distraction_request = Some(0)
    /\ \E th \in Threads : pc[th] = "deduct"
    /\ ActiveSession # None
    /\ ActiveRow.distraction_used = 0
    /\ result = UdtReturn(Some(ActiveRow.distraction_budget))
    /\ reply = Some(BudgetUpdated(ActiveRow.distraction_budget))

\* C28: for every Unix timestamp t >= 0 the derived day is the ISO weekday of
\* t read as UTC (1 = Monday .. 7 = Sunday, the day of the epoch being
\* Thursday = 4, and the weekday repeating every 7 days) and the derived time
\* is the zero-padded HH:MM of t mod 86400: five characters, hours in 0..23,
\* minutes in 0..59, naming the minute that t falls in.
C28_DayAndTime ==
    result.op = "get_current_day_and_time"
    => LET t == input[1]
           day == result.val[1]
           time == result.val[2]
           hours == (10 * DigitVal(time[1])) + DigitVal(time[2])
           minutes == (10 * DigitVal(time[4])) + DigitVal(time[5])
       IN /\ t >= 0
          /\ day \in 1..7
          /\ ((t \div 86400) + 4 - day) % 7 = 0
          /\ Len(time) = 5
          /\ time[3] = ":"
          /\ \A i \in {1, 2, 4, 5} : IsDigit(time[i])
          /\ hours \in 0..23
          /\ minutes \in 0..59
          /\ (hours * 3600) + (minutes * 60) <= t % 86400
          /\ t % 86400 < (hours * 3600) + (minutes * 60) + 60

\* the last second of Monday 2024-01-01 has been read as day 1, 23:59
C28_Witness ==
    /\ input = <<(FirstDayOf2024 * 86400) + 86399>>
    /\ result = [op |-> "get_current_day_and_time",
                 val |-> <<1, <<"2", "3", ":", "5", "9">>>>]

\* C25: end and add_distraction_time called on a session that was never
\* saved (no id) return an error and leave the store as it was, and so does
\* update called on a schedule that was never saved; called on a saved
\* object they succeed.
C25_UnsavedIsError ==
    [][(call_end \/ call_add_distraction_time \/ call_update)
       => /\ input[2] = None
             => /\ ~result'.val.ok
                /\ sessions' = sessions
                /\ schedules' = schedules
          /\ input[2] # None => result'.val.ok]_vars

\* end was called on a session without an id while a session was active: an
\* error came back and the active session is still active
C25_Witness ==
    /\ input = <<"end", None>>
    /\ result.op = "end"
    /\ ~result.val.ok
    /\ Len(sessions) = 2
    /\ OpenSessions(sessions) = {2}

\* C24: start_focus_session(budget_minutes) with budget_minutes <= 0 or
\* budget_minutes > 1440 returns a validation error and leaves the store as it
\* was (an active session stays active, no row is added); with
\* 1 <= budget_minutes <= 1440, and the store accepting the calls, it returns
\* Ok and the one active session is a new manual one whose distraction_budget
\* is budget_minutes * 60, with nothing used.
C24_BudgetValidation ==
    [][\A budget_minutes \in CommandBudgetMinutes, fail \in FailPoints(3) :
          start_focus_session(budget_minutes, fail)
          => /\ (budget_minutes <= 0 \/ budget_minutes > 1440)
                => /\ ~result'.val.ok
                   /\ result'.val.value \in
                          {"Invalid budget_minutes: must be positive",
                           "Invalid budget_minutes: cannot exceed 1440 minutes"}
                   /\ sessions' = sessions
             /\ (budget_minutes \in 1..1440 /\ fail = 0)
                => /\ result'.val = Ok(<<>>)
                   /\ Len(sessions') = Len(sessions) + 1
                   /\ find_active(sessions') = Some(Len(sessions'))
                   /\ sessions'[Len(sessions')].distraction_budget = budget_minutes * 60
                   /\ sessions'[Len(sessions')].distraction_used = 0
                   /\ ~sessions'[Len(sessions')].scheduled]_vars

\* start_focus_session(1440) has started a session of 86400 seconds, and a
\* later start_focus_session(1441) has been rejected with that session still
\* the active one
C24_Witness ==
    /\ result = [op |-> "start_focus_session",
                 val |-> Err("Invalid budget_minutes: cannot exceed 1440 minutes")]
    /\ find_active(sessions) = Some(1)
    /\ sessions[1].distraction_budget = 1440 * 60
    /\ ~sessions[1].scheduled

\* C29 as stated: every store error met by a core operation is surfaced as a
\* failure: when the first store call of get_state, use_distraction_time,
\* start_session, end_session or check_schedules fails, the operation returns
\* an error, the command returns an error, and the native host writes a reply
\* that reports the failure, not an inactive, empty state and not silence.
C29_AsStated ==
    [][/\ get_focus_state(1) => ~result'.val.ok
       /\ \A budget_minutes \in CommandBudgetMinutes \cap (1..MAX_BUDGET_MINUTES) :
              start_focus_session(budget_minutes, 1) => ~result'.val.ok
       /\ end_focus_session(1) => ~result'.val.ok
       /\ check_focus_schedules(1) => ~result'.val.ok
       /\ request_state(1)
          => /\ ~result'.val.ok
             /\ reply' # None
             /\ reply' # Some(State(FALSE, 0, <<>>))
       /\ (is_rate_limited(last_distraction_request, now)
           /\ host_use_distraction_time_gate(1, 1))
          => /\ ~result'.val.ok
             /\ reply' # None
       /\ host_use_distraction_time_deduct(1, 1)
          => /\ ~result'.val.ok
             /\ reply' # None]_vars

\* C23 as stated: lock poisoning is recovered and never surfaced: with the
\* store mutex poisoned and the store answering every call, each command
\* returns what it returns with an unpoisoned mutex, never a failure.
C23_AsStated ==
    [][("db" \in poisoned)
       => /\ get_focus_state(0)
             => /\ result'.val.ok
                /\ result'.val.value = get_state_value(sessions, rules, categories, UnixNow)
          /\ \A budget_minutes \in CommandBudgetMinutes \cap (1..MAX_BUDGET_MINUTES) :
                 start_focus_session(budget_minutes, 0) => result'.val.ok
          /\ end_focus_session(0) => result'.val.ok
          /\ check_focus_schedules(0) => result'.val.ok
          /\ get_focus_schedules(0)
             => /\ result'.val.ok
                /\ result'.val.value = FocusSchedule_find_all(schedules, 0).value]_vars

\* C22 as stated: once create_rule, update_rule or delete_rule has completed
\* successfully, the index of the Categorizer is the one built from the rules
\* in the store, and every later categorize_app and categorize_url call
\* returns what the stored rules give. Stated of the state each operation
\* leaves: the rules cannot have changed since the call that result records.
C22_AsStated ==
    /\ (result.op \in {"create_rule", "update_rule", "delete_rule"} /\ result.val.ok)
       => categorizer = Categorizer_new(rules, categories)
    /\ result.op = "categorize_app"
       => result.val = categorize_app_value(Categorizer_new(rules, categories),
                                            input[1], input[2])
    /\ result.op = "categorize_url"
       => result.val = categorize_url_value(Categorizer_new(rules, categories),
                                            input[1])

-----------------------------------------------------------------------------
\* Schedules that overlap: create_focus_schedule validates each schedule on
\* its own, so two enabled schedules may cover the same day and time

Sched_long == Schedule(Str_weekdays, Str_0800, Str_1200, 300, TRUE)

OverlapTables ==
    { <<Sched_long, Sched_early, Sched_morning>>,
      <<Sched_early, Sched_long, Sched_morning>> }

InitOverlap ==
    /\ now = 0
    /\ sessions = <<>>
    /\ schedules \in OverlapTables
    /\ rules = DefaultRules
    /\ categories = DEFAULT_CATEGORIES
    /\ last_distraction_request = None
    /\ pc = [th \in Threads |-> "idle"]
    /\ secs_arg = [th \in Threads |-> 0]
    /\ result = [op |-> "new", val |-> <<>>]
    /\ input = <<>>
    /\ TrackerIdle
    /\ SetupDone

NextOverlap ==
    \/ \E d \in TickSteps : Tick(d)
    \/ \E b \in SessionBudgets : start_session(b)
    \/ end_session
    \/ get_state
    \/ get_active_schedule
    \/ check_schedules

SpecOverlap == InitOverlap /\ [][NextOverlap]_vars

\* the enabled schedules active at the current local day and time
ActiveSchedules ==
    LET day_time == get_current_day_and_time(UnixNow)
    IN {i \in DOMAIN schedules : is_active_at(schedules[i], day_time[1], day_time[2])}

\* C34: right after a check_schedules call made while no manual session is
\* active: if a schedule is active (S, the one find_active_schedule returns),
\* the active session is a scheduled one whose distraction_budget differs from
\* S's by at most 60 seconds; if no schedule is active, no session is active.
C34_SessionFollowsSchedule ==
    [][(/\ result'.op = "check_schedules"
        /\ ~(ActiveSession # None /\ ~ActiveRow.scheduled)
        /\ check_schedules)
       => LET after == find_active(sessions')
          IN IF ActiveSchedule # None
             THEN /\ after # None
                  /\ sessions'[after[1]].scheduled
                  /\ Abs(ActiveSchedule[1].distraction_budget
                         - sessions'[after[1]].distraction_budget) <= 60
             ELSE after = None]_vars

\* C34 as stated, read for every schedule that is active
C34_AsStated ==
    [][(/\ result'.op = "check_schedules"
        /\ ~(ActiveSession # None /\ ~ActiveRow.scheduled)
        /\ check_schedules)
       => LET after == find_active(sessions')
          IN \A i \in ActiveSchedules :
                /\ after # None
                /\ sessions'[after[1]].scheduled
                /\ Abs(schedules[i].distraction_budget
                       - sessions'[after[1]].distraction_budget) <= 60]_vars

\* check_schedules at 09:00, with the 08:00-12:00 and the 09:00-12:00
\* schedules both active, has replaced the session of the 08:00-09:00
\* schedule (45 seconds) by one with the budget of the 08:00-12:00 schedule
C34_Witness ==
    /\ result.op = "check_schedules"
    /\ schedules = <<Sched_early, Sched_long, Sched_morning>>
    /\ ActiveSchedules = {2, 3}
    /\ ActiveSchedule = Some(Sched_long)
    /\ Len(sessions) = 2
    /\ sessions[1].scheduled /\ sessions[1].distraction_budget = 45
    /\ sessions[1].ended_at = Some(UnixNow)
    /\ sessions[2].scheduled /\ sessions[2].distraction_budget = 300
    /\ sessions[2].ended_at = None

\* C35: with the clock and the schedules unchanged, a check_schedules call
\* that directly follows a check_schedules call changes no session row, also
\* while several enabled schedules whose budgets differ by more than 60
\* seconds are active at the same time
C35_SecondCallChangesNothing ==
    [][(result'.op = "check_schedules" /\ check_schedules)
       => check_schedules_rows(sessions', ActiveSchedule, UnixNow) = sessions']_vars

\* check_schedules has run at 08:59:40 with the 08:00-12:00 schedule (300
\* seconds) and the 08:00-09:00 schedule (45 seconds) both active
C35_Witness ==
    /\ result.op = "check_schedules"
    /\ schedules = <<Sched_long, Sched_early, Sched_morning>>
    /\ ActiveSchedules = {1, 2}
    /\ now = 0
    /\ Len(sessions) = 1
    /\ sessions[1].scheduled /\ sessions[1].distraction_budget = 300
    /\ sessions[1].ended_at = None

\* C36: the rate-limit window belongs to the FocusManager, not to a session:
\* an accepted call that finds no active session still stamps the window and
\* returns None without reopening it; no step that starts or ends a session
\* changes the window; and a call made less than 25 seconds after the last
\* accepted call deducts nothing, also from a session started in between.
C36_WindowOfManager ==
    [][/\ \A th \in Threads :
            /\ (/\ pc[th] = "idle"
                /\ ~is_rate_limited(last_distraction_request, now)
                /\ ActiveSession = None
                /\ pc'[th] = "deduct")
               => /\ last_distraction_request' = Some(now)
                  /\ sessions' = sessions
            /\ (/\ pc[th] = "deduct"
                /\ ActiveSession = None
                /\ use_distraction_time_deduct(th))
               => /\ result' = UdtReturn(None)
                  /\ last_distraction_request' = last_distraction_request
                  /\ last_distraction_request # None
            /\ (/\ pc[th] = "idle"
                /\ pc'[th] = "idle"
                /\ last_distraction_request # None
                /\ now - last_distraction_request[1] < 25
                /\ result'.op = "use_distraction_time"
                /\ HostReturned(th))
               => \A i \in DOMAIN sessions :
                      sessions'[i].distraction_used = sessions[i].distraction_used
       /\ (OpenSessions(sessions') # OpenSessions(sessions)
           \/ Len(sessions') # Len(sessions))
          => last_distraction_request' = last_distraction_request]_vars

\* a call accepted at time 0 found no session and returned None; the session
\* started afterwards has then answered a call 24 seconds later with its full
\* budget, nothing deducted
C36_Witness ==
    /\ now = 24
    /\ last_distraction_request = Some(0)
    /\ Len(sessions) = 1
    /\ sessions[1].ended_at = None
    /\ ~sessions[1].scheduled
    /\ sessions[1].distraction_used = 0
    /\ result = UdtReturn(Some(sessions[1].distraction_budget))
    /\ \A th \in Threads : pc[th] = "idle"

-----------------------------------------------------------------------------
\* The FocusManager of a restarted application: the store still holds the
\* active session, with what was used of its budget, and the rate-limit
\* window of the new FocusManager is open

RestartedSessions ==
    { <<[started_at |-> BaseTime - 60, ended_at |-> None, scheduled |-> TRUE,
         distraction_budget |-> 45, distraction_used |-> 30]>>,
      <<[started_at |-> BaseTime - 60, ended_at |-> None, scheduled |-> FALSE,
         distraction_budget |-> 60, distraction_used |-> 0]>> }

InitBudget ==
    /\ now = 0
    /\ sessions \in RestartedSessions
    /\ schedules = <<>>
    /\ rules = DefaultRules
    /\ categories = DEFAULT_CATEGORIES
    /\ last_distraction_request = None
    /\ pc = [th \in Threads |-> "idle"]
    /\ secs_arg = [th \in Threads |-> 0]
    /\ result = [op |-> "new", val |-> <<>>]
    /\ input = <<>>
    /\ TrackerIdle
    /\ SetupDone

NextBudget ==
    \/ \E d \in TickSteps : Tick(d)
    \/ \E b \in SessionBudgets : start_session(b)
    \/ end_session
    \/ get_state
    \/ \E th \in Threads, secs \in DistractionSecs : use_distraction_time_gate(th, secs)
    \/ \E th \in Threads : use_distraction_time_deduct(th)

SpecBudget == InitBudget /\ [][NextBudget]_vars

NotEarlier(schedule) ==
    MinutesOf(schedule.start_time) >= MinutesOf(schedule.end_time)

\* C38 as stated: a stored schedule whose start_time is not earlier than its
\* end_time is reported active at no day and time, and get_active_schedule
\* never returns it
C38_AsStated ==
    /\ (result.op = "is_active_at" /\ NotEarlier(schedules[input[3]]))
       => result.val = FALSE
    /\ (result.op = "get_active_schedule" /\ result.val # None)
       => ~NotEarlier(result.val[1])

\* C40: once stop() was called and the join of the sampler thread has
\* returned, no activity is appended; between stop() and the end of the loop
\* only a cycle that had passed the flag check before can append its one
\* sample, because after stop() the sampler enters no new cycle.
C40_StopBoundsSamples ==
    [][/\ main = "joined" => activities' = activities
       /\ (TrackerStopped /\ activities' # activities)
          => /\ sampler = "cycle"
             /\ sampler' = "sleep"
             /\ Len(activities') = Len(activities) + 1
       /\ (TrackerStopped /\ sampler # "cycle") => sampler' # "cycle"]_vars

\* stop() came while a cycle was past the flag check; that cycle recorded the
\* second sample, the loop ended and the join returned
C40_Witness ==
    /\ main = "joined"
    /\ sampler = "done"
    /\ ~running
    /\ Len(activities) = 2
    /\ input # <<>>
    /\ input[1] < idle_threshold_secs
    /\ input[2] # None

-----------------------------------------------------------------------------
\* One TrackerService whose start() and stop() are called in any order:
\* start() spawns a thread on every call

\* TrackerService::start, any call: set the flag, spawn one more thread
TrackerService_start ==
    /\ \E i \in 1..MaxStarts :
          /\ loops[i] = "unspawned"
          /\ \A j \in 1..(i - 1) : loops[j] # "unspawned"
          /\ loops' = [loops EXCEPT ![i] = "top"]
    /\ running' = TRUE
    /\ UNCHANGED <<focus_vars, cache_vars, result, reply, input, sampler, activities,
                   main, lock_holder, handler>>

\* TrackerService::stop, any call
TrackerService_stop ==
    /\ running' = FALSE
    /\ UNCHANGED <<focus_vars, cache_vars, thread_vars, result, reply, input, sampler,
                   activities, main>>

\* thread i at the top of a cycle: the loop condition
loop_check(i) ==
    /\ loops[i] = "top"
    /\ loops' = [loops EXCEPT ![i] = IF loop_continues(running) THEN "cycle" ELSE "done"]
    /\ UNCHANGED <<focus_vars, cache_vars, result, reply, input, running, sampler,
                   activities, main, lock_holder, handler>>

\* the body of a cycle of thread i
loop_cycle(i, idle_secs, window) ==
    /\ loops[i] = "cycle"
    /\ input' = <<idle_secs, window>>
    /\ activities' = IF is_sampled(idle_secs, window)
                     THEN record_sample(activities, categorizer, window[1], UnixNow)
                     ELSE activities
    /\ Len(activities') <= MaxActivities
    /\ loops' = [loops EXCEPT ![i] = "sleep"]
    /\ UNCHANGED <<focus_vars, cache_vars, result, reply, running, sampler, main,
                   lock_holder, handler>>

\* thread::sleep of thread i returns
loop_wake(i) ==
    /\ loops[i] = "sleep"
    /\ loops' = [loops EXCEPT ![i] = "top"]
    /\ UNCHANGED <<focus_vars, cache_vars, result, reply, input, running, sampler,
                   activities, main, lock_holder, handler>>

NextLoops ==
    \/ TrackerService_start
    \/ TrackerService_stop
    \/ \E i \in 1..MaxStarts : loop_check(i)
    \/ \E i \in 1..MaxStarts, idle_secs \in IdleTimes, window \in Windows :
           loop_cycle(i, idle_secs, window)
    \/ \E i \in 1..MaxStarts : loop_wake(i)

SpecLoops == InitTracker /\ [][NextLoops]_vars

\* the sampling loops that have been spawned and have not ended
AliveLoops == {i \in 1..MaxStarts : loops[i] \in {"top", "cycle", "sleep"}}

\* C39 as stated: whatever the sequence of start() and stop() calls on one
\* TrackerService, at most one sampling loop is alive at any time
C39_AsStated == Cardinality(AliveLoops) <= 1

-----------------------------------------------------------------------------
\* The handlers as sequences of steps: a step takes a mutex and does the
\* work that follows under its guard, or drops a guard. A guard is dropped
\* where its scope ends: the guard of a match scrutinee or of an inner block
\* before the next statement, the guards of a function in the reverse order
\* of their declaration when it returns. After its last step a handler has
\* returned.

\* the sampler cycle with the categorizer guard kept until the end of the
\* cycle
sampler_cycle_steps_guard_kept ==
    << <<"lock", "categorizer", "categorize_app">>,
       <<"lock", "db", "save">>,
       <<"unlock", "db">>,
       <<"unlock", "categorizer">> >>

\* tracker/mod.rs 65-94: categorizer.lock() for the categorize_app call only,
\* then db.lock() for the save
sampler_cycle_steps ==
    << <<"lock", "categorizer", "categorize_app">>,
       <<"unlock", "categorizer">>,
       <<"lock", "db", "save">>,
       <<"unlock", "db">> >>

\* commands/rules.rs 61-86: db.lock(), Rule::create, then reload_categorizer
\* taking categorizer.lock() while the db guard is alive
create_rule_steps ==
    << <<"lock", "db", "Rule::create">>,
       <<"lock", "categorizer", "reload">>,
       <<"unlock", "categorizer">>,
       <<"unlock", "db">> >>

\* focus/mod.rs 101-131: the rate-limit guard; a rate-limited call (steps 2
\* to 4) takes the db guard inside it, an accepted call (steps 5 to 7) drops
\* it first
use_distraction_time_steps ==
    << <<"lock", "rate_limit", "gate">>,
       <<"lock", "db", "find_active">>,
       <<"unlock", "db">>,
       <<"unlock", "rate_limit", "return">>,
       <<"unlock", "rate_limit">>,
       <<"lock", "db", "deduct">>,
       <<"unlock", "db">> >>

\* focus/mod.rs 70-95, and every other FocusManager operation: lock_db alone
get_state_steps ==
    << <<"lock", "db", "get_state">>,
       <<"unlock", "db">> >>

\* native_host/mod.rs 114-134: categorizer.lock() inside a block, then
\* db.lock() for the save
record_activity_steps ==
    << <<"lock", "categorizer", "categorize_url">>,
       <<"unlock", "categorizer">>,
       <<"lock", "db", "save">>,
       <<"unlock", "db">> >>

Steps(op) ==
    CASE op = "sampler_cycle" -> sampler_cycle_steps
      [] op = "create_rule" -> create_rule_steps
      [] op = "use_distraction_time" -> use_distraction_time_steps
      [] op = "get_state" -> get_state_steps
      [] op = "record_activity" -> record_activity_steps

\* the handlers a thread runs
HandlersOf(t) ==
    IF t = "sampler" THEN {"sampler_cycle"}
    ELSE IF t = "host" THEN {"record_activity", "use_distraction_time", "get_state"}
    ELSE {"create_rule", "use_distraction_time", "get_state"}

\* the step thread t is at
Step(t) == Steps(handler[t].op)[handler[t].i]

\* thread t moved on to step i of its handler
Goto(t, i) == handler' = [handler EXCEPT ![t].i = i]

\* Mutex::lock returns to thread t, which is at a step doing work: the mutex
\* was free
Acquires(t, work) ==
    /\ handler[t] # Idle
    /\ Step(t)[1] = "lock"
    /\ Step(t)[3] \in work
    /\ lock_holder[Step(t)[2]] = "free"
    /\ lock_holder' = [lock_holder EXCEPT ![Step(t)[2]] = t]

\* a reload that empties the index before it reads the store
Categorizer_reload_in_place(cat, rule_tbl, category_tbl, fail) ==
    IF fail \in {1, 2}
    THEN [res |-> Err("rusqlite"), cat |-> [cat EXCEPT !.rules = <<>>]]
    ELSE [res |-> Ok(<<>>), cat |-> Categorizer_new(rule_tbl, category_tbl)]

\* Categorizer::reload: *self = Self::new(conn)?, Self::new making two store
\* calls (Rule::find_all, Category::find_all)
Categorizer_reload(cat, rule_tbl, category_tbl, fail) ==
    IF fail \in {1, 2}
    THEN [res |-> Err("rusqlite"), cat |-> cat]
    ELSE [res |-> Ok(<<>>), cat |-> Categorizer_new(rule_tbl, category_tbl)]

\* what the sampler and the host see, and the rule the user creates
SampledWindow == ActiveWindow(<<"a">>, <<"b", "a">>)
VisitedDomain == <<"a", "b">>
CreatedRule == Rule(<<"a">>, "title", 2, 20)

InitLocks ==
    /\ now = 0
    /\ sessions = <<FocusSession_new(600, FALSE, BaseTime)>>
    /\ schedules = <<>>
    /\ rules = <<Rule(<<"a">>, "app", 1, 5)>>
    /\ categories = DEFAULT_CATEGORIES
    /\ last_distraction_request = None
    /\ pc = [th \in Threads |-> "idle"]
    /\ secs_arg = [th \in Threads |-> 0]
    /\ result = [op |-> "new", val |-> <<>>]
    /\ input = <<>>
    /\ TrackerIdle
    /\ SetupDone

\* thread t enters a handler; what a handler returns is left to the models of
\* the handlers, here a thread keeps what it read under a guard in local
handler_begin(t, op) ==
    /\ handler[t] = Idle
    /\ op \in HandlersOf(t)
    /\ op \in {"sampler_cycle", "record_activity"} => Len(activities) < MaxActivities
    /\ op = "create_rule" => Len(rules) < MaxRules
    /\ handler' = [handler EXCEPT ![t] = [op |-> op, i |-> 1, local |-> 0]]
    /\ UNCHANGED <<focus_vars, cache_vars, tracker_vars, loops, lock_holder,
                   result, reply, input>>

\* thread t drops a guard; dropping the last one, the handler returns
mutex_unlock(t) ==
    /\ handler[t] # Idle
    /\ Step(t)[1] = "unlock"
    /\ lock_holder' = [lock_holder EXCEPT ![Step(t)[2]] = "free"]
    /\ handler' = IF handler[t].i = Len(Steps(handler[t].op)) \/ Len(Step(t)) = 3
                  THEN [handler EXCEPT ![t] = Idle]
                  ELSE [handler EXCEPT ![t].i = @ + 1]
    /\ UNCHANGED <<focus_vars, cache_vars, tracker_vars, loops, result, reply, input>>

\* categorize_app / categorize_url under the categorizer guard
handler_categorize(t) ==
    /\ Acquires(t, {"categorize_app", "categorize_url"})
    /\ LET id == IF Step(t)[3] = "categorize_app"
                 THEN categorize_app_value(categorizer, SampledWindow.app_name,
                                           Some(SampledWindow.window_title))
                 ELSE categorize_url_value(categorizer, VisitedDomain)
       IN handler' = [handler EXCEPT ![t].i = @ + 1, ![t].local = id]
    /\ UNCHANGED <<focus_vars, cache_vars, tracker_vars, loops, result, reply, input>>

\* Activity::save under the db guard, with the category found before
handler_save(t) ==
    /\ Acquires(t, {"save"})
    /\ LET activity ==
               IF handler[t].op = "sampler_cycle"
               THEN Activity_new(UnixNow, poll_interval_secs, "app",
                                 Some(SampledWindow.app_name),
                                 Some(SampledWindow.window_title))
               ELSE [Activity_new(UnixNow, 5, "browser", None, Some(<<"b">>))
                        EXCEPT !.url = Some(VisitedDomain),
                               !.domain = Some(VisitedDomain)]
       IN activities' =
              Activity_save(activities,
                            [activity EXCEPT !.category_id = Some(handler[t].local)])
    /\ Goto(t, handler[t].i + 1)
    /\ UNCHANGED <<focus_vars, cache_vars, loops, running, sampler, main,
                   result, reply, input>>

\* Rule::create under the db guard; on an error the command returns, dropping
\* the db guard
handler_create(t, fail) ==
    /\ Acquires(t, {"Rule::create"})
    /\ IF fail = 0
       THEN /\ rules' = Rule_create(rules, CreatedRule)
            /\ Goto(t, handler[t].i + 1)
       ELSE /\ Goto(t, Len(create_rule_steps))
            /\ UNCHANGED rules
    /\ UNCHANGED <<now, sessions, schedules, categories, last_distraction_request,
                   pc, secs_arg, cache_vars, tracker_vars, loops,
                   result, reply, input>>

\* reload_categorizer under both guards
handler_reload(t, fail) ==
    /\ Acquires(t, {"reload"})
    /\ categorizer' = Categorizer_reload(categorizer, rules, categories, fail).cat
    /\ Goto(t, handler[t].i + 1)
    /\ UNCHANGED <<focus_vars, host_categorizer, poisoned, tracker_vars, loops,
                   result, reply, input>>

\* the rate-limit test under the rate-limit guard
handler_gate(t) ==
    /\ Acquires(t, {"gate"})
    /\ IF is_rate_limited(last_distraction_request, now)
       THEN /\ Goto(t, 2)
            /\ UNCHANGED last_distraction_request
       ELSE /\ Goto(t, 5)
            /\ last_distraction_request' = Some(now)
    /\ UNCHANGED <<now, sessions, schedules, rules, categories, pc, secs_arg,
                   cache_vars, tracker_vars, loops, result, reply, input>>

\* the store section of a FocusManager operation under the db guard
handler_store(t) ==
    /\ Acquires(t, {"find_active", "deduct", "get_state"})
    /\ sessions' = IF Step(t)[3] = "deduct"
                   THEN FocusManager_deduct(sessions, 30, 0).tbl
                   ELSE sessions
    /\ Goto(t, handler[t].i + 1)
    /\ UNCHANGED <<now, schedules, rules, categories, last_distraction_request, pc,
                   secs_arg, cache_vars, tracker_vars, loops, result, reply, input>>

\* a step of thread t inside a handler
HandlerStep(t) ==
    \/ mutex_unlock(t)
    \/ handler_categorize(t)
    \/ handler_save(t)
    \/ \E fail \in 0..1 : handler_create(t, fail)
    \/ \E fail \in 0..2 : handler_reload(t, fail)
    \/ handler_gate(t)
    \/ handler_store(t)

NextLocks ==
    \/ \E t \in LockThreads : \E op \in HandlersOf(t) : handler_begin(t, op)
    \/ \E t \in LockThreads : mutex_unlock(t)
    \/ \E t \in LockThreads : handler_categorize(t)
    \/ \E t \in LockThreads : handler_save(t)
    \/ \E t \in LockThreads, fail \in 0..1 : handler_create(t, fail)
    \/ \E t \in LockThreads, fail \in 0..2 : handler_reload(t, fail)
    \/ \E t \in LockThreads : handler_gate(t)
    \/ \E t \in LockThreads : handler_store(t)

SpecLocks == InitLocks /\ [][NextLocks]_vars

\* the scheduler runs every thread that can take a step, and a thread that
\* finds its mutex free again and again gets it
SpecLocksFair ==
    /\ InitLocks
    /\ [][NextLocks]_vars
    /\ SF_vars(HandlerStep("sampler"))
    /\ SF_vars(HandlerStep("ui"))
    /\ SF_vars(HandlerStep("host"))

\* thread t is blocked in Mutex::lock
Waiting(t) ==
    /\ handler[t] # Idle
    /\ Step(t)[1] = "lock"
    /\ lock_holder[Step(t)[2]] # "free"

\* every thread of D waits for a mutex held by a thread of D
Deadlocked(D) ==
    /\ D # {}
    /\ \A t \in D : Waiting(t) /\ lock_holder[Step(t)[2]] \in D

\* the order in which the mutexes are taken when more than one is held
LockRank == [rate_limit |-> 1, db |-> 2, categorizer |-> 3]

\* a thread about to take a mutex holds only mutexes that come before it
LockOrder ==
    \A t \in LockThreads :
        (handler[t] # Idle /\ Step(t)[1] = "lock")
        => \A l \in Locks :
               lock_holder[l] = t => LockRank[l] < LockRank[Step(t)[2]]

CompleteIndexes ==
    {Categorizer_new(SubSeq(rules, 1, k), categories) : k \in 1..Len(rules)}

\* C31: a categorize_app or categorize_url call running concurrently with
\* reload() holds the categorizer mutex and answers from a complete index,
\* the one built before or the one built after the rule change, never from a
\* partly rebuilt one; a reload that fails leaves the index as it was, and
\* one that succeeds installs Categorizer::new of the rules table.
C31_CompleteIndex ==
    /\ [](categorizer \in CompleteIndexes)
    /\ [][\A t \in LockThreads :
            /\ handler_categorize(t)
               => /\ lock_holder'["categorizer"] = t
                  /\ \E index \in CompleteIndexes :
                        handler'[t].local =
                            IF handler[t].op = "sampler_cycle"
                            THEN categorize_app_value(
                                     index, SampledWindow.app_name,
                                     Some(SampledWindow.window_title))
                            ELSE categorize_url_value(index, VisitedDomain)
            /\ \A fail \in 0..2 :
                 handler_reload(t, fail)
                 => /\ lock_holder["categorizer"] = "free"
                    /\ categorizer' = IF fail = 0
                                      THEN Categorizer_new(rules, categories)
                                      ELSE categorizer]_vars

\* the rule was created and its command waits for the categorizer mutex,
\* which the sampler holds, having categorized its window with the index
\* built before the rule existed
C31_Witness ==
    /\ Len(rules) = 2
    /\ handler["ui"] = [op |-> "create_rule", i |-> 2, local |-> 0]
    /\ lock_holder["db"] = "ui"
    /\ lock_holder["categorizer"] = "sampler"
    /\ handler["sampler"] = [op |-> "sampler_cycle", i |-> 2, local |-> 1]
    /\ categorizer = Categorizer_new(SubSeq(rules, 1, 1), categories)
    /\ categorizer # Categorizer_new(rules, categories)

====
